---------------------------- MODULE Spec2Model ----------------------------
(***************************************************************************)
(* Model of the JobVision cleaning pipeline (src/preprocess.py) and of the *)
(* categorical normalizers and embedded-list parsers the analyses apply to *)
(* the cleaned table (src/visualize_*.py).                                 *)
(*                                                                         *)
(* Text is modelled character by character: a Python str is a sequence of  *)
(* one-character tokens.  A printable ASCII character is the token itself; *)
(* any other character is the token "uXXXX" of its code point, so that the *)
(* Persian digit U+06F2 and the Bengali digit U+09E8 are different tokens. *)
(***************************************************************************)
EXTENDS Integers, Sequences, FiniteSets, TLC

VARIABLES
    pc,                 \* where preprocess_job_data is ("idle" when it is not running)
    raw_file,           \* the file at raw_file_path: missing, unreadable or a table
    writable,           \* whether the file at cleaned_file_path can be written
    df,                 \* the DataFrame of preprocess_job_data
    cleaned_file,       \* the file at cleaned_file_path: missing or a table
    printed,            \* the messages printed so far
    exc,                \* the exception that ended the run ("" when none)
    Standardized_Size,  \* the column visualize_company_size_distribution derives
    fn,                 \* the helper an analysis is calling ("" when none)
    arg,                \* the raw value it is called with
    ret                 \* the outcome of the call: pending, returned or raised

vars ==
    <<pc, raw_file, writable, df, cleaned_file, printed, exc, Standardized_Size, fn, arg, ret>>

-----------------------------------------------------------------------------
(* Python values.                                                          *)

Str(s) == [type |-> "str", s |-> s]
\* A float or an int, held in tenths: Num(15) is 1.5, Num(10) is 1.
Num(n) == [type |-> "num", n |-> n]
\* float('nan'), what pandas holds for a missing cell.
NaN == [type |-> "nan"]
None == [type |-> "none"]
Bool(b) == [type |-> "bool", b |-> b]
List(items) == [type |-> "list", items |-> items]

Pending == [kind |-> "pending"]
Return(v) == [kind |-> "return", val |-> v]
Raise(e) == [kind |-> "raise", exc |-> e]

\* pd.isna on a scalar.
isna(v) == v.type \in {"nan", "none"}

-----------------------------------------------------------------------------
(* str methods.                                                            *)

\* sub in s
Contains(s, sub) ==
    \E i \in 1..(Len(s) - Len(sub) + 1) : SubSeq(s, i, i + Len(sub) - 1) = sub

\* s.replace(old, new): leftmost, non-overlapping occurrences (old is not empty).
RECURSIVE Replace(_, _, _)
Replace(s, old, new) ==
    IF Len(s) < Len(old) THEN s
    ELSE IF SubSeq(s, 1, Len(old)) = old
         THEN new \o Replace(SubSeq(s, Len(old) + 1, Len(s)), old, new)
         ELSE <<Head(s)>> \o Replace(Tail(s), old, new)

UpperLetters == <<"A", "B", "C", "D", "E", "F", "G", "H", "I", "J", "K", "L", "M",
                  "N", "O", "P", "Q", "R", "S", "T", "U", "V", "W", "X", "Y", "Z">>
LowerLetters == <<"a", "b", "c", "d", "e", "f", "g", "h", "i", "j", "k", "l", "m",
                  "n", "o", "p", "q", "r", "s", "t", "u", "v", "w", "x", "y", "z">>

LowerChar(c) ==
    IF \E i \in 1..Len(UpperLetters) : UpperLetters[i] = c
    THEN LowerLetters[CHOOSE i \in 1..Len(UpperLetters) : UpperLetters[i] = c]
    ELSE c

\* s.lower(): the Persian letters and digits of the model have no case.
Lower(s) == [i \in 1..Len(s) |-> LowerChar(s[i])]

Whitespace == {" "}

\* s.strip()
RECURSIVE LStrip(_)
LStrip(s) == IF s # <<>> /\ Head(s) \in Whitespace THEN LStrip(Tail(s)) ELSE s
RECURSIVE RStrip(_)
RStrip(s) ==
    IF s # <<>> /\ s[Len(s)] \in Whitespace THEN RStrip(SubSeq(s, 1, Len(s) - 1)) ELSE s
\* Only the leading whitespace removed.
Strip_leading_only(s) == LStrip(s)
Strip(s) == RStrip(LStrip(s))

\* Every string over alphabet A of length at most n.
StringsUpTo(A, n) == UNION {[1..k -> A] : k \in 0..n}

-----------------------------------------------------------------------------
(* standardize_company_size (src/visualize_company_size.py).               *)

\* 'نامشخص'
UNSPECIFIED == <<"u0646", "u0627", "u0645", "u0634", "u062E", "u0635">>

\* The twelve literals the conditions test, in source order: for each tier the
\* first and the second alternative of its `or`.
SizePatterns ==
    << << <<"u0632", "u06CC", "u0631", "u06F1", "u06F0">>,
          <<"u0632", "u06CC", "u0631", "1", "0">> >>,
       << <<"u06F1", "u06F1", "u06F5", "u06F0">>,
          <<"1", "1", "5", "0">> >>,
       \* the first literal of this line ends in the Bengali digits U+09E8 U+09E6 U+09E6
       << <<"u06F5", "u06F1", "u09E8", "u09E6", "u09E6">>,
          <<"5", "1", "2", "0", "0">> >>,
       << <<"u06F2", "u06F0", "u06F1", "u06F5", "u06F0", "u06F0">>,
          <<"2", "0", "1", "5", "0", "0">> >>,
       << <<"u06F5", "u06F0", "u06F1", "u06F1", "u06F0", "u06F0", "u06F0">>,
          <<"5", "0", "1", "1", "0", "0", "0">> >>,
       << <<"u0628", "u06CC", "u0634", "u0627", "u0632", "u06F1", "u06F0", "u06F0", "u06F0">>,
          <<"u0628", "u06CC", "u0634", "u0627", "u0632", "1", "0", "0", "0">> >> >>

\* The six labels returned, in tier order:
\* 'زیر ۱۰ نفر', '۱۱ تا ۵۰ نفر', '۵۱ تا ۲۰۰ نفر', '۲۰۱ تا ۵۰۰ نفر',
\* '۵۰۱ تا ۱۰۰۰ نفر', 'بیش از ۱۰۰۰ نفر'
SizeLabels ==
    << <<"u0632", "u06CC", "u0631", " ", "u06F1", "u06F0", " ", "u0646", "u0641", "u0631">>,
       <<"u06F1", "u06F1", " ", "u062A", "u0627", " ", "u06F5", "u06F0", " ",
         "u0646", "u0641", "u0631">>,
       <<"u06F5", "u06F1", " ", "u062A", "u0627", " ", "u06F2", "u06F0", "u06F0", " ",
         "u0646", "u0641", "u0631">>,
       <<"u06F2", "u06F0", "u06F1", " ", "u062A", "u0627", " ", "u06F5", "u06F0", "u06F0", " ",
         "u0646", "u0641", "u0631">>,
       <<"u06F5", "u06F0", "u06F1", " ", "u062A", "u0627", " ", "u06F1", "u06F0", "u06F0",
         "u06F0", " ", "u0646", "u0641", "u0631">>,
       <<"u0628", "u06CC", "u0634", " ", "u0627", "u0632", " ", "u06F1", "u06F0", "u06F0",
         "u06F0", " ", "u0646", "u0641", "u0631">> >>

\* 'تا' and 'نفر', the connector words removed before matching.
TA == <<"u062A", "u0627">>
NAFAR == <<"u0646", "u0641", "u0631">>

\* A slip the normalization could have: the spaces are left in.
NormalizeSize_keep_spaces(s) == Replace(Replace(s, TA, <<>>), NAFAR, <<>>)

\* size_str.replace(' ', '').replace('تا', '').replace('نفر', '')
NormalizeSize(s) == Replace(Replace(Replace(s, <<" ">>, <<>>), TA, <<>>), NAFAR, <<>>)

\* The if/elif chain over the normalized string: the first tier one of whose two
\* literals occurs in it, 0 when none does.
RECURSIVE SizeTierFrom(_, _)
SizeTierFrom(normalized_str, t) ==
    IF t > Len(SizePatterns) THEN 0
    ELSE IF Contains(normalized_str, SizePatterns[t][1])
            \/ Contains(normalized_str, SizePatterns[t][2])
         THEN t
         ELSE SizeTierFrom(normalized_str, t + 1)

\* A slip the last branch could have: the raw string returned when no tier is recognised.
standardize_company_size_echo(size_str) ==
    IF size_str.type # "str" THEN Return(Str(UNSPECIFIED))
    ELSE LET normalized_str == NormalizeSize(size_str.s)
             t == SizeTierFrom(normalized_str, 1)
         IN  IF t = 0 THEN Return(size_str) ELSE Return(Str(SizeLabels[t]))

standardize_company_size(size_str) ==
    IF size_str.type # "str" THEN Return(Str(UNSPECIFIED))
    ELSE LET normalized_str == NormalizeSize(size_str.s)
             t == SizeTierFrom(normalized_str, 1)
         IN  IF t = 0 THEN Return(Str(UNSPECIFIED)) ELSE Return(Str(SizeLabels[t]))

-----------------------------------------------------------------------------
(* categorize_seniority (src/visualize_salary_by_seniority.py).            *)

\* ['manager', 'مدیر', 'head', 'سرپرست', 'chief', 'رئیس']
manager_keywords ==
    << <<"m", "a", "n", "a", "g", "e", "r">>,
       <<"u0645", "u062F", "u06CC", "u0631">>,
       <<"h", "e", "a", "d">>,
       <<"u0633", "u0631", "u067E", "u0631", "u0633", "u062A">>,
       <<"c", "h", "i", "e", "f">>,
       <<"u0631", "u0626", "u06CC", "u0633">> >>

\* ['senior', 'ارشد']
senior_keywords ==
    << <<"s", "e", "n", "i", "o", "r">>,
       <<"u0627", "u0631", "u0634", "u062F">> >>

\* ['junior', 'کارآموز', 'intern', 'تازه']
junior_keywords ==
    << <<"j", "u", "n", "i", "o", "r">>,
       <<"u06A9", "u0627", "u0631", "u0622", "u0645", "u0648", "u0632">>,
       <<"i", "n", "t", "e", "r", "n">>,
       <<"u062A", "u0627", "u0632", "u0647">> >>

\* 'مدیر / سرپرست'
LABEL_MANAGER ==
    <<"u0645", "u062F", "u06CC", "u0631", " ", "/", " ",
      "u0633", "u0631", "u067E", "u0631", "u0633", "u062A">>
\* 'ارشد'
LABEL_SENIOR == <<"u0627", "u0631", "u0634", "u062F">>
\* 'مقدماتی / کارآموز'
LABEL_JUNIOR ==
    <<"u0645", "u0642", "u062F", "u0645", "u0627", "u062A", "u06CC", " ", "/", " ",
      "u06A9", "u0627", "u0631", "u0622", "u0645", "u0648", "u0632">>
\* 'سطح میانی'
LABEL_MID == <<"u0633", "u0637", "u062D", " ", "u0645", "u06CC", "u0627", "u0646", "u06CC">>

\* any(keyword in title for keyword in keywords)
AnyKeywordIn(keywords, title) ==
    \E i \in 1..Len(keywords) : Contains(title, keywords[i])

\* A slip the chain could have: the senior keywords tested before the manager keywords.
categorize_seniority_senior_first(title) ==
    IF title.type # "str" THEN Return(Str(UNSPECIFIED))
    ELSE LET lowered == Lower(title.s)
         IN  IF AnyKeywordIn(senior_keywords, lowered) THEN Return(Str(LABEL_SENIOR))
             ELSE IF AnyKeywordIn(manager_keywords, lowered) THEN Return(Str(LABEL_MANAGER))
             ELSE IF AnyKeywordIn(junior_keywords, lowered) THEN Return(Str(LABEL_JUNIOR))
             ELSE Return(Str(LABEL_MID))

categorize_seniority(title) ==
    IF title.type # "str" THEN Return(Str(UNSPECIFIED))
    ELSE LET lowered == Lower(title.s)
         IN  IF AnyKeywordIn(manager_keywords, lowered) THEN Return(Str(LABEL_MANAGER))
             ELSE IF AnyKeywordIn(senior_keywords, lowered) THEN Return(Str(LABEL_SENIOR))
             ELSE IF AnyKeywordIn(junior_keywords, lowered) THEN Return(Str(LABEL_JUNIOR))
             ELSE Return(Str(LABEL_MID))

-----------------------------------------------------------------------------
(* categorize_experience (src/visualize_work_experience.py).               *)

\* 'کارآموز / بدون سابقه', 'کم‌تجربه (۱ تا ۳ سال)', 'باتجربه (۳ تا ۷ سال)',
\* 'ارشد (۷ تا ۱۰ سال)', 'بسیار باتجربه (بیش از ۱۰ سال)'
ExperienceLabels ==
    << <<"u06A9", "u0627", "u0631", "u0622", "u0645", "u0648", "u0632", " ", "/", " ",
         "u0628", "u062F", "u0648", "u0646", " ", "u0633", "u0627", "u0628", "u0642", "u0647">>,
       <<"u06A9", "u0645", "u200C", "u062A", "u062C", "u0631", "u0628", "u0647", " ", "(",
         "u06F1", " ", "u062A", "u0627", " ", "u06F3", " ", "u0633", "u0627", "u0644", ")">>,
       <<"u0628", "u0627", "u062A", "u062C", "u0631", "u0628", "u0647", " ", "(",
         "u06F3", " ", "u062A", "u0627", " ", "u06F7", " ", "u0633", "u0627", "u0644", ")">>,
       <<"u0627", "u0631", "u0634", "u062F", " ", "(", "u06F7", " ", "u062A", "u0627", " ",
         "u06F1", "u06F0", " ", "u0633", "u0627", "u0644", ")">>,
       <<"u0628", "u0633", "u06CC", "u0627", "u0631", " ", "u0628", "u0627", "u062A", "u062C",
         "u0631", "u0628", "u0647", " ", "(", "u0628", "u06CC", "u0634", " ", "u0627", "u0632",
         " ", "u06F1", "u06F0", " ", "u0633", "u0627", "u0644", ")">> >>

\* A slip the bands could have: the first band written years < 1.
ExperienceBand_exclusive(n) ==
    IF n < 10 THEN 1
    ELSE IF n <= 30 THEN 2
    ELSE IF n <= 70 THEN 3
    ELSE IF n <= 100 THEN 4
    ELSE 5

\* The band of a number of years given in tenths: the if/elif chain
\* years <= 1, 1 < years <= 3, 3 < years <= 7, 7 < years <= 10, else.
ExperienceBand(n) ==
    IF n <= 10 THEN 1
    ELSE IF 10 < n /\ n <= 30 THEN 2
    ELSE IF 30 < n /\ n <= 70 THEN 3
    ELSE IF 70 < n /\ n <= 100 THEN 4
    ELSE 5

\* `years <= 1` raises TypeError when years is a str.
categorize_experience(years) ==
    IF isna(years) THEN Return(Str(UNSPECIFIED))
    ELSE IF years.type # "num" THEN Raise("TypeError")
    ELSE Return(Str(ExperienceLabels[ExperienceBand(years.n)]))

-----------------------------------------------------------------------------
(* json.loads, as far as the parsers use it.  A text is a sequence of      *)
(* tokens: one token per character, except that an attribute name          *)
(* (TitleFa, FieldType, Languages_TitleFa, DegreeLevel, Other) and the     *)
(* literals null, true and false are one token each.                       *)

Dict(pairs) == [type |-> "dict", pairs |-> pairs]

Digits == {"0", "1", "2", "3", "4", "5", "6", "7", "8", "9"}
DigitValue(c) == CHOOSE d \in 0..9 : ToString(d) = c

ParseFail == [ok |-> FALSE]
ParseOk(v, pos) == [ok |-> TRUE, val |-> v, pos |-> pos]

RECURSIVE SkipWs(_, _)
SkipWs(s, i) == IF i <= Len(s) /\ s[i] \in Whitespace THEN SkipWs(s, i + 1) ELSE i

\* The text after an opening quote, up to the next quote.
ParseString(s, i) ==
    IF \E k \in i..Len(s) : s[k] = "\""
    THEN LET k == CHOOSE k \in i..Len(s) :
                     s[k] = "\"" /\ \A m \in i..(k - 1) : s[m] # "\""
         IN  ParseOk(Str(SubSeq(s, i, k - 1)), k + 1)
    ELSE ParseFail

\* An integer: 0, or a run of digits that does not start with 0.
RECURSIVE ParseDigits(_, _, _)
ParseDigits(s, i, n) ==
    IF i <= Len(s) /\ s[i] \in Digits
    THEN ParseDigits(s, i + 1, 10 * n + DigitValue(s[i]))
    ELSE ParseOk(Num(10 * n), i)

RECURSIVE ParseValue(_, _)
RECURSIVE ParseItems(_, _, _)
RECURSIVE ParseMembers(_, _, _)

ParseValue(s, i) ==
    LET j == SkipWs(s, i)
    IN  IF j > Len(s) THEN ParseFail
        ELSE IF s[j] = "\"" THEN ParseString(s, j + 1)
        ELSE IF s[j] = "[" THEN
            LET k == SkipWs(s, j + 1)
            IN  IF k <= Len(s) /\ s[k] = "]" THEN ParseOk(List(<<>>), k + 1)
                ELSE ParseItems(s, k, <<>>)
        ELSE IF s[j] = "{" THEN
            LET k == SkipWs(s, j + 1)
            IN  IF k <= Len(s) /\ s[k] = "}" THEN ParseOk(Dict(<<>>), k + 1)
                ELSE ParseMembers(s, k, <<>>)
        ELSE IF s[j] = "null" THEN ParseOk(None, j + 1)
        ELSE IF s[j] = "true" THEN ParseOk(Bool(TRUE), j + 1)
        ELSE IF s[j] = "false" THEN ParseOk(Bool(FALSE), j + 1)
        ELSE IF s[j] = "0" THEN ParseOk(Num(0), j + 1)
        ELSE IF s[j] \in Digits THEN ParseDigits(s, j, 0)
        ELSE ParseFail

ParseItems(s, i, acc) ==
    LET r == ParseValue(s, i)
    IN  IF ~r.ok THEN ParseFail
        ELSE LET k == SkipWs(s, r.pos)
             IN  IF k > Len(s) THEN ParseFail
                 ELSE IF s[k] = "," THEN ParseItems(s, k + 1, Append(acc, r.val))
                 ELSE IF s[k] = "]" THEN ParseOk(List(Append(acc, r.val)), k + 1)
                 ELSE ParseFail

ParseMembers(s, i, acc) ==
    LET j == SkipWs(s, i)
    IN  IF j > Len(s) \/ s[j] # "\"" THEN ParseFail
        ELSE LET key == ParseString(s, j + 1)
             IN  IF ~key.ok THEN ParseFail
                 ELSE LET k == SkipWs(s, key.pos)
                      IN  IF k > Len(s) \/ s[k] # ":" THEN ParseFail
                          ELSE LET v == ParseValue(s, k + 1)
                               IN  IF ~v.ok THEN ParseFail
                                   ELSE LET m == SkipWs(s, v.pos)
                                            more == Append(acc, [k |-> key.val.s, v |-> v.val])
                                        IN  IF m > Len(s) THEN ParseFail
                                            ELSE IF s[m] = "," THEN ParseMembers(s, m + 1, more)
                                            ELSE IF s[m] = "}" THEN ParseOk(Dict(more), m + 1)
                                            ELSE ParseFail

\* json.loads(text): the decoded value, or JSONDecodeError (also for text left over).
json_loads(text) ==
    LET r == ParseValue(text, 1)
    IN  IF r.ok /\ SkipWs(text, r.pos) > Len(text) THEN Return(r.val)
        ELSE Raise("JSONDecodeError")

\* d.get(key, default): the last member of that name wins.
DictGet(d, key, default) ==
    IF \E i \in 1..Len(d.pairs) : d.pairs[i].k = key
    THEN d.pairs[CHOOSE i \in 1..Len(d.pairs) :
                     d.pairs[i].k = key /\ \A m \in (i + 1)..Len(d.pairs) : d.pairs[m].k # key].v
    ELSE default

\* bool(v)
Truthy(v) ==
    CASE v.type = "str" -> v.s # <<>>
      [] v.type = "num" -> v.n # 0
      [] v.type = "bool" -> v.b
      [] v.type = "list" -> v.items # <<>>
      [] v.type = "dict" -> v.pairs # <<>>
      [] OTHER -> FALSE

-----------------------------------------------------------------------------
(* The embedded-list parsers (src/visualize_top_skills.py,                 *)
(* src/visualize_academic_fields.py, src/visualize_language_skills.py,     *)
(* src/visualize_experience_vs_education.py).                              *)

\* The list comprehension
\*   [x.get(attr, '').strip() for x in items if x.get(attr) and x.get(attr).strip()]
\* .get on an element that is no dict and .strip on a value that is no str raise
\* AttributeError.
RECURSIVE CollectAttr(_, _, _)
CollectAttr(items, attr, acc) ==
    IF items = <<>> THEN Return(List(acc))
    ELSE LET x == Head(items)
         IN  IF x.type # "dict" THEN Raise("AttributeError")
             ELSE LET v == DictGet(x, <<attr>>, None)
                  IN  IF ~Truthy(v) THEN CollectAttr(Tail(items), attr, acc)
                      ELSE IF v.type # "str" THEN Raise("AttributeError")
                      ELSE IF Strip(v.s) = <<>> THEN CollectAttr(Tail(items), attr, acc)
                      ELSE CollectAttr(Tail(items), attr,
                                       Append(acc, Str(Strip(DictGet(x, <<attr>>, Str(<<>>)).s))))

\* The body the three list parsers share: the guard, the quote substitution, json.loads,
\* and `except (json.JSONDecodeError, TypeError): return []`; AttributeError is not caught.
ParseAttrList(text, attr) ==
    IF isna(text) \/ text.type # "str" THEN Return(List(<<>>))
    ELSE LET decoded == json_loads(Replace(text.s, <<"'">>, <<"\"">>))
         IN  IF decoded.kind = "raise" THEN Return(List(<<>>))
             ELSE IF decoded.val.type = "list"
                  THEN LET got == CollectAttr(decoded.val.items, attr, <<>>)
                       IN  IF got.kind = "raise" /\ got.exc \in {"JSONDecodeError", "TypeError"}
                           THEN Return(List(<<>>))
                           ELSE got
                  ELSE Return(List(<<>>))

parse_software_skills(skills_json) == ParseAttrList(skills_json, "TitleFa")
parse_academic_fields(academic_json) == ParseAttrList(academic_json, "FieldType")
parse_language_skills(skills_json) == ParseAttrList(skills_json, "Languages_TitleFa")

\* 'DegreeLevel' in x: a key of a dict, a substring of a str, an element of a list;
\* TypeError for anything else.
InValue(key, x) ==
    CASE x.type = "dict" -> Return(Bool(\E i \in 1..Len(x.pairs) : x.pairs[i].k = <<key>>))
      [] x.type = "str" -> Return(Bool(Contains(x.s, <<key>>)))
      [] x.type = "list" -> Return(Bool(\E i \in 1..Len(x.items) : x.items[i] = Str(<<key>>)))
      [] OTHER -> Raise("TypeError")

\* x['DegreeLevel']: the value of a dict; TypeError on a str or a list.
Subscript(x, key) ==
    IF x.type = "dict" THEN Return(DictGet(x, <<key>>, None)) ELSE Raise("TypeError")

\* parse_degree_level reading the last element of the list in place of the first.
parse_degree_level_last_element(academic_json) ==
    IF isna(academic_json) \/ academic_json.type # "str" THEN Return(Str(UNSPECIFIED))
    ELSE LET decoded == json_loads(Replace(academic_json.s, <<"'">>, <<"\"">>))
         IN  IF decoded.kind = "raise" THEN Return(Str(UNSPECIFIED))
             ELSE LET data == decoded.val
                  IN  IF data.type = "list" /\ Len(data.items) > 0
                      THEN LET last == data.items[Len(data.items)]
                               has == InValue("DegreeLevel", last)
                           IN  IF has.kind = "raise" THEN Return(Str(UNSPECIFIED))
                               ELSE IF has.val.b
                                    THEN LET got == Subscript(last, "DegreeLevel")
                                         IN  IF got.kind = "raise" THEN Return(Str(UNSPECIFIED))
                                             ELSE got
                                    ELSE Return(Str(UNSPECIFIED))
                      ELSE Return(Str(UNSPECIFIED))

parse_degree_level(academic_json) ==
    IF isna(academic_json) \/ academic_json.type # "str" THEN Return(Str(UNSPECIFIED))
    ELSE LET decoded == json_loads(Replace(academic_json.s, <<"'">>, <<"\"">>))
         IN  IF decoded.kind = "raise" THEN Return(Str(UNSPECIFIED))
             ELSE LET data == decoded.val
                  IN  IF data.type = "list" /\ Len(data.items) > 0
                      THEN LET has == InValue("DegreeLevel", data.items[1])
                           IN  IF has.kind = "raise" THEN Return(Str(UNSPECIFIED))
                               ELSE IF has.val.b
                                    THEN LET got == Subscript(data.items[1], "DegreeLevel")
                                         IN  IF got.kind = "raise" THEN Return(Str(UNSPECIFIED))
                                             ELSE got
                                    ELSE Return(Str(UNSPECIFIED))
                      ELSE Return(Str(UNSPECIFIED))

-----------------------------------------------------------------------------
(* to_persian_numerals (src/config.py): str.translate over the ten digits. *)

PersianNumerals ==
    <<"u06F0", "u06F1", "u06F2", "u06F3", "u06F4", "u06F5", "u06F6", "u06F7", "u06F8", "u06F9">>

to_persian_numerals(number_str) ==
    [i \in 1..Len(number_str) |->
        IF number_str[i] \in Digits THEN PersianNumerals[DigitValue(number_str[i]) + 1]
        ELSE number_str[i]]

-----------------------------------------------------------------------------
(* The raw values the helpers are called with.                             *)

\* Longest free-form company-size string tried.
MaxSizeLen == 4
\* Most words in a job title.
MaxTitleWords == 2
\* Largest number of years of experience tried.
MaxYears == 12
\* Most elements in an embedded list.
MaxElems == 2

\* 'زیر', 'بیش', 'از'
ZIR == <<"u0632", "u06CC", "u0631">>
BISH == <<"u0628", "u06CC", "u0634">>
AZ == <<"u0627", "u0632">>

\* The bounds of the six tiers as the raw data writes them (the first and the last tier
\* have one bound).
TierLow == << <<>>, <<"1", "1">>, <<"5", "1">>, <<"2", "0", "1">>, <<"5", "0", "1">>, <<>> >>
TierHigh == << <<"1", "0">>, <<"5", "0">>, <<"2", "0", "0">>, <<"5", "0", "0">>,
               <<"1", "0", "0", "0">>, <<"1", "0", "0", "0">> >>

\* The raw string of tier t: in Persian or in Western digits, with or without spaces,
\* with or without the connector 'تا' and the word 'نفر'.
CanonicalSize(t, persian, spaced, with_ta, with_nafar) ==
    LET sp == IF spaced THEN <<" ">> ELSE <<>>
        D(s) == IF persian THEN to_persian_numerals(s) ELSE s
        tail == IF with_nafar THEN sp \o NAFAR ELSE <<>>
    IN  CASE t = 1 -> ZIR \o sp \o D(TierHigh[1]) \o tail
          [] t = 6 -> BISH \o sp \o AZ \o sp \o D(TierHigh[6]) \o tail
          [] OTHER -> D(TierLow[t]) \o sp \o (IF with_ta THEN TA \o sp ELSE <<>>)
                          \o D(TierHigh[t]) \o tail

CanonicalSizes ==
    {CanonicalSize(t, p, s, c, n) : t \in 1..6, p \in BOOLEAN, s \in BOOLEAN,
                                    c \in BOOLEAN, n \in BOOLEAN}

\* "Under 10"
UNDER_10 == <<"U", "n", "d", "e", "r", " ", "1", "0">>

SizeAlphabet == {"1", "5", "0", " ", "u062A", "u0627"}

NonStrings == {NaN, None, Num(100)}

SizeInputs ==
    {Str(s) : s \in CanonicalSizes}
        \cup {Str(SizePatterns[t][k]) : t \in 1..6, k \in 1..2}
        \cup {Str(SizeLabels[t]) : t \in 1..6}
        \cup {Str(UNDER_10)}
        \cup {Str(s) : s \in StringsUpTo(SizeAlphabet, MaxSizeLen)}
        \cup NonStrings

TitleWords ==
    { <<"M", "a", "n", "a", "g", "e", "r">>, <<"M", "A", "N", "A", "G", "E", "R">>,
      <<"u0645", "u062F", "u06CC", "u0631">>, <<"H", "e", "a", "d">>,
      <<"u0633", "u0631", "u067E", "u0631", "u0633", "u062A">>, <<"c", "h", "i", "e", "f">>,
      <<"u0631", "u0626", "u06CC", "u0633">>,
      <<"S", "e", "n", "i", "o", "r">>, <<"u0627", "u0631", "u0634", "u062F">>,
      <<"J", "u", "n", "i", "o", "r">>,
      <<"u06A9", "u0627", "u0631", "u0622", "u0645", "u0648", "u0632">>,
      <<"I", "n", "t", "e", "r", "n">>, <<"u062A", "u0627", "u0632", "u0647">>,
      <<"D", "e", "v", "e", "l", "o", "p", "e", "r">>,
      <<"I", "n", "t", "e", "r", "n", "a", "t", "i", "o", "n", "a", "l">>,
      <<"u06A9", "u0627", "u0631", "u0634", "u0646", "u0627", "u0633">>,
      <<"u0641", "u0631", "u0648", "u0634">> }

\* sep.join(words)
RECURSIVE Join(_, _)
Join(words, sep) ==
    IF words = <<>> THEN <<>>
    ELSE IF Len(words) = 1 THEN words[1]
    ELSE words[1] \o sep \o Join(Tail(words), sep)

Titles == {Join(ws, <<" ">>) : ws \in UNION {[1..k -> TitleWords] : k \in 0..MaxTitleWords}}

SeniorityInputs == {Str(s) : s \in Titles} \cup NonStrings

ExperienceInputs ==
    {Num(n) : n \in (-10)..(10 * MaxYears)}
        \cup {NaN, None, Str(<<"a", "b", "c">>), Str(<<"5">>)}

\* The text of one element of an embedded list, for the attribute a parser reads, with
\* the strings quoted by q (the export writes ' where JSON wants ").
ElemKinds ==
    {"value", "padded", "empty", "blank", "absent", "number", "null",
     "not_a_dict", "bare_string", "nested_list"}

ElemText(kind, attr, q) ==
    LET K(name) == <<q, name, q>>
        V(chars) == <<q>> \o chars \o <<q>>
        Obj(name, value) == <<"{">> \o K(name) \o <<":", " ">> \o value \o <<"}">>
    IN  CASE kind = "value" -> Obj(attr, V(<<"a">>))
          [] kind = "padded" -> Obj(attr, V(<<" ", "b", " ">>))
          [] kind = "empty" -> Obj(attr, V(<<>>))
          [] kind = "blank" -> Obj(attr, V(<<" ">>))
          [] kind = "absent" -> Obj("Other", V(<<"a">>))
          [] kind = "number" -> Obj(attr, <<"5">>)
          [] kind = "null" -> Obj(attr, <<"null">>)
          [] kind = "not_a_dict" -> <<"7">>
          [] kind = "bare_string" -> K(attr)
          [] kind = "nested_list" -> <<"[">> \o K(attr) \o <<"]">>

\* str(list): '[' + ', '.join(elements) + ']'
ListText(kinds, attr, q) ==
    <<"[">> \o Join([i \in 1..Len(kinds) |-> ElemText(kinds[i], attr, q)], <<",", " ">>)
        \o <<"]">>

Quotes == {"'", "\""}

Prefixes(s) == {SubSeq(s, 1, k) : k \in 0..Len(s)}

\* The texts a parser reading attribute attr is given: well-formed lists of every mix of
\* element kinds, every truncation of a list of well-formed records, and texts whose top
\* level is no list.
EmbeddedTexts(attr) ==
    {ListText(ks, attr, q) : ks \in UNION {[1..k -> ElemKinds] : k \in 0..MaxElems},
                               q \in Quotes}
        \cup UNION {Prefixes(ListText(ks, attr, q)) :
                        ks \in UNION {[1..k -> {"value", "absent"}] : k \in 0..MaxElems},
                        q \in Quotes}
        \cup {ElemText(k, attr, q) : k \in {"value", "not_a_dict", "bare_string"}, q \in Quotes}
        \cup {<<"null">>, <<"n", "o", "t", " ", "j", "s", "o", "n">>}

ParserInputs(attr) == {Str(s) : s \in EmbeddedTexts(attr)} \cup NonStrings

-----------------------------------------------------------------------------
(* standardize_it_role and the category filter of the IT analyses          *)
(* (src/visualize_it_role_salaries.py, src/visualize_it_skills_by_province.py). *)

\* 'سایر', the label of a title no keyword list matches.
OTHER_ROLE == <<"u0633", "u0627", "u06CC", "u0631">>

\* The keyword lists of the chain, in source order, each with the label it returns.
it_role_rules ==
    <<
       \* ['back end', 'backend', 'بک اند'] -> 'توسعه دهنده بک-اند'
       [keywords |-> << <<"b", "a", "c", "k", " ", "e", "n", "d">>,
                        <<"b", "a", "c", "k", "e", "n", "d">>,
                        <<"u0628", "u06A9", " ", "u0627", "u0646", "u062F">> >>,
        label |-> <<"u062A", "u0648", "u0633", "u0639", "u0647", " ", "u062F", "u0647",
                    "u0646", "u062F", "u0647", " ", "u0628", "u06A9", "-", "u0627", "u0646",
                    "u062F">>],
       \* ['front end', 'frontend', 'فرانت اند'] -> 'توسعه دهنده فرانت-اند'
       [keywords |-> << <<"f", "r", "o", "n", "t", " ", "e", "n", "d">>,
                        <<"f", "r", "o", "n", "t", "e", "n", "d">>,
                        <<"u0641", "u0631", "u0627", "u0646", "u062A", " ", "u0627", "u0646",
                          "u062F">> >>,
        label |-> <<"u062A", "u0648", "u0633", "u0639", "u0647", " ", "u062F", "u0647",
                    "u0646", "u062F", "u0647", " ", "u0641", "u0631", "u0627", "u0646",
                    "u062A", "-", "u0627", "u0646", "u062F">>],
       \* ['full stack', 'fullstack', 'فول استک'] -> 'توسعه دهنده فول-استک'
       [keywords |-> << <<"f", "u", "l", "l", " ", "s", "t", "a", "c", "k">>,
                        <<"f", "u", "l", "l", "s", "t", "a", "c", "k">>,
                        <<"u0641", "u0648", "u0644", " ", "u0627", "u0633", "u062A",
                          "u06A9">> >>,
        label |-> <<"u062A", "u0648", "u0633", "u0639", "u0647", " ", "u062F", "u0647",
                    "u0646", "u062F", "u0647", " ", "u0641", "u0648", "u0644", "-", "u0627",
                    "u0633", "u062A", "u06A9">>],
       \* ['android', 'اندروید'] -> 'توسعه دهنده اندروید'
       [keywords |-> << <<"a", "n", "d", "r", "o", "i", "d">>,
                        <<"u0627", "u0646", "u062F", "u0631", "u0648", "u06CC", "u062F">> >>,
        label |-> <<"u062A", "u0648", "u0633", "u0639", "u0647", " ", "u062F", "u0647",
                    "u0646", "u062F", "u0647", " ", "u0627", "u0646", "u062F", "u0631",
                    "u0648", "u06CC", "u062F">>],
       \* ['ios'] -> 'توسعه دهنده iOS'
       [keywords |-> << <<"i", "o", "s">> >>,
        label |-> <<"u062A", "u0648", "u0633", "u0639", "u0647", " ", "u062F", "u0647",
                    "u0646", "u062F", "u0647", " ", "i", "O", "S">>],
       \* ['devops', ' دواپس'] -> 'مهندس DevOps'
       [keywords |-> << <<"d", "e", "v", "o", "p", "s">>,
                        <<" ", "u062F", "u0648", "u0627", "u067E", "u0633">> >>,
        label |-> <<"u0645", "u0647", "u0646", "u062F", "u0633", " ", "D", "e", "v", "O", "p",
                    "s">>],
       \* ['data scientist', 'دانشمند داده', 'تحلیلگر داده'] -> 'دانشمند / تحلیلگر داده'
       [keywords |-> << <<"d", "a", "t", "a", " ", "s", "c", "i", "e", "n", "t", "i", "s",
                          "t">>,
                        <<"u062F", "u0627", "u0646", "u0634", "u0645", "u0646", "u062F", " ",
                          "u062F", "u0627", "u062F", "u0647">>,
                        <<"u062A", "u062D", "u0644", "u06CC", "u0644", "u06AF", "u0631", " ",
                          "u062F", "u0627", "u062F", "u0647">> >>,
        label |-> <<"u062F", "u0627", "u0646", "u0634", "u0645", "u0646", "u062F", " ", "/",
                    " ", "u062A", "u062D", "u0644", "u06CC", "u0644", "u06AF", "u0631", " ",
                    "u062F", "u0627", "u062F", "u0647">>],
       \* ['network', 'شبکه'] -> 'مهندس شبکه'
       [keywords |-> << <<"n", "e", "t", "w", "o", "r", "k">>,
                        <<"u0634", "u0628", "u06A9", "u0647">> >>,
        label |-> <<"u0645", "u0647", "u0646", "u062F", "u0633", " ", "u0634", "u0628",
                    "u06A9", "u0647">>]
    >>

\* The chain of `if any(keyword in title ...)` from rule i on.
RECURSIVE RoleFrom(_, _)
RoleFrom(title, i) ==
    IF i > Len(it_role_rules) THEN OTHER_ROLE
    ELSE IF AnyKeywordIn(it_role_rules[i].keywords, title) THEN it_role_rules[i].label
    ELSE RoleFrom(title, i + 1)

\* title.lower().replace('-', ' ').replace('_', ' '), then the chain.
standardize_it_role(title) ==
    IF title.type # "str" THEN Return(Str(OTHER_ROLE))
    ELSE Return(Str(RoleFrom(Replace(Replace(Lower(title.s), <<"-">>, <<" ">>),
                                     <<"_">>, <<" ">>), 1)))

\* IT_JOB_CATEGORIES of visualize_it_role_salaries.py:
\* 'توسعه نرم افزار و برنامه نویسی', 'فناوری اطلاعات / نرم افزار و سخت افزار',
\* 'شبکه / امنیت / زیرساخت', 'DevOps / Sys-Admin'
IT_JOB_CATEGORIES_of_it_role_salaries ==
    << <<"u062A", "u0648", "u0633", "u0639", "u0647", " ", "u0646", "u0631", "u0645", " ",
         "u0627", "u0641", "u0632", "u0627", "u0631", " ", "u0648", " ", "u0628", "u0631",
         "u0646", "u0627", "u0645", "u0647", " ", "u0646", "u0648", "u06CC", "u0633",
         "u06CC">>,
       <<"u0641", "u0646", "u0627", "u0648", "u0631", "u06CC", " ", "u0627", "u0637", "u0644",
         "u0627", "u0639", "u0627", "u062A", " ", "/", " ", "u0646", "u0631", "u0645", " ",
         "u0627", "u0641", "u0632", "u0627", "u0631", " ", "u0648", " ", "u0633", "u062E",
         "u062A", " ", "u0627", "u0641", "u0632", "u0627", "u0631">>,
       <<"u0634", "u0628", "u06A9", "u0647", " ", "/", " ", "u0627", "u0645", "u0646",
         "u06CC", "u062A", " ", "/", " ", "u0632", "u06CC", "u0631", "u0633", "u0627",
         "u062E", "u062A">>,
       <<"D", "e", "v", "O", "p", "s", " ", "/", " ", "S", "y", "s", "-", "A", "d", "m", "i",
         "n">> >>

\* IT_JOB_CATEGORIES of visualize_it_skills_by_province.py: the same first three
\* literals, then 'DevOps ، Sys-Admin'.
IT_JOB_CATEGORIES_of_it_skills_by_province ==
    << <<"u062A", "u0648", "u0633", "u0639", "u0647", " ", "u0646", "u0631", "u0645", " ",
         "u0627", "u0641", "u0632", "u0627", "u0631", " ", "u0648", " ", "u0628", "u0631",
         "u0646", "u0627", "u0645", "u0647", " ", "u0646", "u0648", "u06CC", "u0633",
         "u06CC">>,
       <<"u0641", "u0646", "u0627", "u0648", "u0631", "u06CC", " ", "u0627", "u0637", "u0644",
         "u0627", "u0639", "u0627", "u062A", " ", "/", " ", "u0646", "u0631", "u0645", " ",
         "u0627", "u0641", "u0632", "u0627", "u0631", " ", "u0648", " ", "u0633", "u062E",
         "u062A", " ", "u0627", "u0641", "u0632", "u0627", "u0631">>,
       <<"u0634", "u0628", "u06A9", "u0647", " ", "/", " ", "u0627", "u0645", "u0646",
         "u06CC", "u062A", " ", "/", " ", "u0632", "u06CC", "u0631", "u0633", "u0627",
         "u062E", "u062A">>,
       <<"D", "e", "v", "O", "p", "s", " ", "u060C", " ", "S", "y", "s", "-", "A", "d", "m",
         "i", "n">> >>

\* df['MainJobCategory'].isin(IT_JOB_CATEGORIES), for one cell.
isin(cell, categories) ==
    cell.type = "str" /\ \E i \in 1..Len(categories) : categories[i] = cell.s

\* The words the job titles tried are made of: words the role lists are written for,
\* two words no role list holds, and two Persian role words.
RoleWords ==
    { <<"A", "n", "d", "r", "o", "i", "d">>, <<"D", "e", "v", "O", "p", "s">>,
      <<"B", "a", "c", "k", "-", "E", "n", "d">>, <<"N", "e", "t", "w", "o", "r", "k">>,
      <<"i", "O", "S">>, <<"D", "e", "v", "e", "l", "o", "p", "e", "r">>,
      <<"S", "e", "n", "i", "o", "r">>,
      <<"u062F", "u0648", "u0627", "u067E", "u0633">>,
      <<"u0627", "u0646", "u062F", "u0631", "u0648", "u06CC", "u062F">> }

RoleTitles == {Join(ws, <<" ">>) : ws \in UNION {[1..k -> RoleWords] : k \in 0..MaxTitleWords}}

RoleInputs == {Str(s) : s \in RoleTitles} \cup NonStrings

\* The literals of the two category lists, as cells of the raw MainJobCategory column.
CategoryCells ==
    {Str(IT_JOB_CATEGORIES_of_it_role_salaries[i]) :
         i \in 1..Len(IT_JOB_CATEGORIES_of_it_role_salaries)}
        \cup {Str(IT_JOB_CATEGORIES_of_it_skills_by_province[i]) :
                  i \in 1..Len(IT_JOB_CATEGORIES_of_it_skills_by_province)}

\* Most pieces in the text of a cell of a designated text column.
MaxPieces == 3

\* The pieces the texts of such a cell are made of: parts of the source phrases of the
\* translation dictionary, the separators, a word that holds a source phrase ('with'
\* holds 'it') and a Persian word.
TextPieces ==
    { <<"B", "a", "c", "k">>,
      <<"E", "n", "d">>,
      <<"-">>,
      <<"/">>,
      <<" ">>,
      <<"I", "T">>,
      <<"w", "i", "t", "h">>,
      <<"u0641", "u0631", "u0648", "u0634">> }

Texts == {Join(ws, <<>>) : ws \in UNION {[1..k -> TextPieces] : k \in 1..MaxPieces}}

\* Texts that hold both the separator ' / ' and a slash of another kind:
\* 'Back / End/IT' and ' / / '.
SlashTexts ==
    { <<"B", "a", "c", "k", " ", "/", " ", "E", "n", "d", "/", "I", "T">>,
      <<" ", "/", " ", "/", " ">> }

\* The cells a designated text column holds: texts, the missing marker, whole and
\* fractional numbers, a boolean.
TextCells ==
    {Str(s) : s \in Texts \cup SlashTexts}
        \cup CategoryCells
        \cup {NaN, Num(50), Num(15), Bool(TRUE)}

Helpers ==
    {"standardize_company_size", "categorize_seniority", "categorize_experience",
     "parse_software_skills", "parse_academic_fields", "parse_language_skills",
     "parse_degree_level", "clean_column", "standardize_it_role"}

Args(f) ==
    CASE f = "standardize_company_size" -> SizeInputs
      [] f = "categorize_seniority" -> SeniorityInputs
      [] f = "categorize_experience" -> ExperienceInputs
      [] f = "parse_software_skills" -> ParserInputs("TitleFa")
      [] f = "parse_academic_fields" -> ParserInputs("FieldType")
      [] f = "parse_language_skills" -> ParserInputs("Languages_TitleFa")
      [] f = "parse_degree_level" -> ParserInputs("DegreeLevel")
      [] f = "clean_column" -> TextCells
      [] f = "standardize_it_role" -> RoleInputs

-----------------------------------------------------------------------------
(* The Field Translator of preprocess_job_data (src/preprocess.py).        *)

\* english_to_persian_map in insertion order.  The literal writes the key '/' twice: the
\* key keeps the place of its first occurrence and the value of its second.
english_to_persian_map ==
    <<
       \* '.net': 'دات نت'
       << <<".", "n", "e", "t">>,
          <<"u062F", "u0627", "u062A", " ", "u0646", "u062A">> >>,
       \* 'net.': 'دات نت'
       << <<"n", "e", "t", ".">>,
          <<"u062F", "u0627", "u062A", " ", "u0646", "u062A">> >>,
       \* 'net core': 'دات نت کر'
       << <<"n", "e", "t", " ", "c", "o", "r", "e">>,
          <<"u062F", "u0627", "u062A", " ", "u0646", "u062A", " ", "u06A9", "u0631">> >>,
       \* 'HSE': 'بهداشت، ایمنی و محیط زیست'
       << <<"H", "S", "E">>,
          <<"u0628", "u0647", "u062F", "u0627", "u0634", "u062A", "u060C", " ", "u0627",
            "u06CC", "u0645", "u0646", "u06CC", " ", "u0648", " ", "u0645", "u062D", "u06CC",
            "u0637", " ", "u0632", "u06CC", "u0633", "u062A">> >>,
       \* 'UI/UX': 'رابط و تجربه کاربری'
       << <<"U", "I", "/", "U", "X">>,
          <<"u0631", "u0627", "u0628", "u0637", " ", "u0648", " ", "u062A", "u062C", "u0631",
            "u0628", "u0647", " ", "u06A9", "u0627", "u0631", "u0628", "u0631", "u06CC">> >>,
       \* 'DevOps': 'دواپس'
       << <<"D", "e", "v", "O", "p", "s">>,
          <<"u062F", "u0648", "u0627", "u067E", "u0633">> >>,
       \* 'Sys-Admin': 'ادمین سیستم'
       << <<"S", "y", "s", "-", "A", "d", "m", "i", "n">>,
          <<"u0627", "u062F", "u0645", "u06CC", "u0646", " ", "u0633", "u06CC", "u0633",
            "u062A", "u0645">> >>,
       \* 'MDF': 'ام\u200cدی\u200cاف'
       << <<"M", "D", "F">>,
          <<"u0627", "u0645", "u200C", "u062F", "u06CC", "u200C", "u0627", "u0641">> >>,
       \* 'Back-End': 'بک-اند'
       << <<"B", "a", "c", "k", "-", "E", "n", "d">>,
          <<"u0628", "u06A9", "-", "u0627", "u0646", "u062F">> >>,
       \* 'Front-End': 'فرانت-اند'
       << <<"F", "r", "o", "n", "t", "-", "E", "n", "d">>,
          <<"u0641", "u0631", "u0627", "u0646", "u062A", "-", "u0627", "u0646", "u062F">> >>,
       \* 'Full-Stack': 'فول-استک'
       << <<"F", "u", "l", "l", "-", "S", "t", "a", "c", "k">>,
          <<"u0641", "u0648", "u0644", "-", "u0627", "u0633", "u062A", "u06A9">> >>,
       \* 'IT': 'فناوری اطلاعات'
       << <<"I", "T">>,
          <<"u0641", "u0646", "u0627", "u0648", "u0631", "u06CC", " ", "u0627", "u0637",
            "u0644", "u0627", "u0639", "u0627", "u062A">> >>,
       \* '/': '-'
       << <<"/">>,
          <<"-">> >>,
       \* 'and': 'و'
       << <<"a", "n", "d">>,
          <<"u0648">> >>,
       \* 'with': 'با'
       << <<"w", "i", "t", "h">>,
          <<"u0628", "u0627">> >>,
       \* 'for': 'برای'
       << <<"f", "o", "r">>,
          <<"u0628", "u0631", "u0627", "u06CC">> >>,
       \* 'coremvc': 'دات\u200cنت کر ام\u200cوی\u200cسی'
       << <<"c", "o", "r", "e", "m", "v", "c">>,
          <<"u062F", "u0627", "u062A", "u200C", "u0646", "u062A", " ", "u06A9", "u0631", " ",
            "u0627", "u0645", "u200C", "u0648", "u06CC", "u200C", "u0633", "u06CC">> >>
    >>

\* Series.str.replace(pat, repl, regex=False, case=False): the escaped pattern compiled
\* with re.IGNORECASE; leftmost, non-overlapping matches.
ReplaceNoCase_case_sensitive(s, old, new) == Replace(s, old, new)

RECURSIVE ReplaceNoCase(_, _, _)
ReplaceNoCase(s, old, new) ==
    IF Len(s) < Len(old) THEN s
    ELSE IF Lower(SubSeq(s, 1, Len(old))) = Lower(old)
         THEN new \o ReplaceNoCase(SubSeq(s, Len(old) + 1, Len(s)), old, new)
         ELSE <<Head(s)>> \o ReplaceNoCase(Tail(s), old, new)

\* The loop over english_to_persian_map.items(), from entry i on.
RECURSIVE DictionaryPass(_, _)
DictionaryPass(s, i) ==
    IF i > Len(english_to_persian_map) THEN s
    ELSE DictionaryPass(
             ReplaceNoCase(s, english_to_persian_map[i][1], english_to_persian_map[i][2]),
             i + 1)

TranslateText_dictionary_first(s) ==
    Replace(DictionaryPass(s, 1), <<" ", "/", " ">>, <<"u060C", " ">>)

\* ' / ' becomes '، ', then the dictionary pass.
TranslateText(s) == DictionaryPass(Replace(s, <<" ", "/", " ">>, <<"u060C", " ">>), 1)

-----------------------------------------------------------------------------
(* DataFrames.  A column name is a sequence of tokens: the prefix, when it *)
(* has one ("Jobpost_", "Comany_", "Company_"), then the rest of the name. *)
(* A table holds its column names and its rows, each row one cell per      *)
(* column; a cell is what pd.read_csv yields: Str, Num, Bool or NaN.       *)

Missing == [kind |-> "missing"]
Unreadable == [kind |-> "unreadable"]
Table(cols, rows) == [kind |-> "table", cols |-> cols, rows |-> rows]

\* col in df.columns
HasColumn(t, col) == \E i \in 1..Len(t.cols) : t.cols[i] = col
\* df[col] is a Series when one column has the name, a DataFrame when several have.
IsSeries(t, col) == Cardinality({i \in 1..Len(t.cols) : t.cols[i] = col}) = 1

\* Every cell of every column named col replaced by f of it.
MapColumn(t, col, f(_)) ==
    Table(t.cols,
          [r \in 1..Len(t.rows) |->
              [i \in 1..Len(t.cols) |->
                  IF t.cols[i] = col THEN f(t.rows[r][i]) ELSE t.rows[r][i]]])

\* The cells of the columns named col.
ColumnCells(t, col) ==
    {t.rows[r][i] : r \in 1..Len(t.rows), i \in {k \in 1..Len(t.cols) : t.cols[k] = col}}

\* --- 3. Column Standardization (lines 47-54) ---
RenameColumn(col) ==
    IF col # <<>> /\ Head(col) = "Jobpost_" THEN Tail(col)
    ELSE IF col # <<>> /\ Head(col) = "Comany_"
         THEN Replace(col, <<"Comany_">>, <<"Company_">>)
         ELSE col

\* A slip the list could have: the mirror column 'ProvinceEn' left out.
cols_to_drop_without_ProvinceEn ==
    { <<"RowNumber">>, <<"WorkTypeEn">>, <<"IndustryEn">>, <<"BenefitEn">>,
      <<"CityEn">>, <<"CompanyOwnershipTypesEn">>, <<"SizeEn">>, <<"ActivityTypeEn">>,
      <<"Company_", "ProvinceEn">> }

cols_to_drop ==
    { <<"RowNumber">>, <<"ProvinceEn">>, <<"WorkTypeEn">>, <<"IndustryEn">>, <<"BenefitEn">>,
      <<"CityEn">>, <<"CompanyOwnershipTypesEn">>, <<"SizeEn">>, <<"ActivityTypeEn">>,
      <<"Company_", "ProvinceEn">> }

\* df.drop(columns=existing_cols_to_drop) (lines 56-62)
DropColumns(t) ==
    LET keep == SelectSeq([i \in 1..Len(t.cols) |-> i], LAMBDA i : t.cols[i] \notin cols_to_drop)
    IN  Table([k \in 1..Len(keep) |-> t.cols[keep[k]]],
              [r \in 1..Len(t.rows) |-> [k \in 1..Len(keep) |-> t.rows[r][keep[k]]]])

\* --- 4. Text & Categorical Data Cleaning (lines 64-80) ---
columns_to_clean ==
    << <<"MainJobCategory">>, <<"IndustryFa">>, <<"Company_", "IndustryFa">>, <<"RawTitle">> >>

\* The decimal digits of a natural number.
RECURSIVE DigitsOf(_)
DigitsOf(n) == IF n < 10 THEN <<ToString(n)>> ELSE DigitsOf(n \div 10) \o <<ToString(n % 10)>>

\* str(x) of a number held in tenths: of a float ('5.0', '1.5') or of an int ('5').
FormatNumber(n, as_float) ==
    LET a == IF n < 0 THEN -n ELSE n
        sign == IF n < 0 THEN <<"-">> ELSE <<>>
    IN  IF as_float THEN sign \o DigitsOf(a \div 10) \o <<".">> \o DigitsOf(a % 10)
        ELSE sign \o DigitsOf(a \div 10)

\* A numeric column is float64 when a cell is missing or is not whole, else int64.
IsFloatColumn(t, col) ==
    \E v \in ColumnCells(t, col) : v.type = "nan" \/ (v.type = "num" /\ v.n % 10 # 0)

\* Series.astype(str), cell by cell: a missing cell becomes the text 'nan'.
astype_str(v, as_float) ==
    CASE v.type = "str" -> v.s
      [] v.type = "nan" -> <<"n", "a", "n">>
      [] v.type = "num" -> FormatNumber(v.n, as_float)
      [] v.type = "bool" -> IF v.b THEN <<"T", "r", "u", "e">> ELSE <<"F", "a", "l", "s", "e">>

\* The body of the loop for one column that is present.
CleanColumn(t, col) ==
    LET as_float == IsFloatColumn(t, col)
        Clean(v) == Str(TranslateText(astype_str(v, as_float)))
    IN  MapColumn(t, col, Clean)

\* The loop over columns_to_clean from column i on.  df[col].str raises AttributeError
\* when df[col] is a DataFrame.
RECURSIVE CleanColumns(_, _)
CleanColumns(t, i) ==
    IF i > Len(columns_to_clean) THEN Return(t)
    ELSE LET col == columns_to_clean[i]
         IN  IF ~HasColumn(t, col) THEN CleanColumns(t, i + 1)
             ELSE IF ~IsSeries(t, col) THEN Raise("AttributeError")
             ELSE CleanColumns(CleanColumn(t, col), i + 1)

\* The body of the loop on a RawTitle column of one cell: the cell it leaves.
CleanCell(v) == CleanColumn(Table(<< <<"RawTitle">> >>, << <<v>> >>), <<"RawTitle">>).rows[1][1]

\* --- 5. Handling Missing Values (lines 82-89) ---
\* 'ProvinceFa', 'WorkTypeFa', 'MainJobCategory': 'نامشخص'; 'RequiredExperienceYears': 0
categorical_fills ==
    << << <<"ProvinceFa">>, Str(UNSPECIFIED) >>,
       << <<"WorkTypeFa">>, Str(UNSPECIFIED) >>,
       << <<"MainJobCategory">>, Str(UNSPECIFIED) >>,
       << <<"RequiredExperienceYears">>, Num(0) >> >>

\* df[col].fillna(fill_value, inplace=True), as pandas 2 without copy-on-write does it:
\* the Series is a view of the frame's column.
FillColumn(t, col, fill_value) ==
    LET Fill(v) == IF v.type = "nan" THEN fill_value ELSE v
    IN  IF HasColumn(t, col) /\ IsSeries(t, col) THEN MapColumn(t, col, Fill) ELSE t

\* A slip the stage could have: df.dropna(subset=...) in place of the fill.
FillColumns_dropna(t, i) ==
    Table(t.cols,
          SelectSeq(t.rows,
                    LAMBDA row : \A k \in 1..Len(t.cols) :
                        (\E j \in i..Len(categorical_fills) : categorical_fills[j][1] = t.cols[k])
                            => row[k] # NaN))

RECURSIVE FillColumns(_, _)
FillColumns(t, i) ==
    IF i > Len(categorical_fills) THEN t
    ELSE FillColumns(FillColumn(t, categorical_fills[i][1], categorical_fills[i][2]), i + 1)

\* --- 6. Data Type Conversion (lines 91-104) ---
bool_cols ==
    << <<"SalaryCanBeShown">>, <<"RequiredRelatedExperienceInThisIndustry">>,
       <<"HasDisabilitySupport">>, <<"IsRemote">>, <<"IsInternship">>,
       <<"PriorityWithLocalCandidate">>, <<"RequiredMilitaryServiceCard">> >>

\* A slip the coercion could have: a missing cell left missing, as astype('boolean') does.
astype_bool_keep_missing(v) ==
    CASE v.type = "bool" -> Bool(v.b)
      [] v.type = "num" -> Bool(v.n # 0)
      [] v.type = "str" -> Bool(v.s # <<>>)
      [] v.type = "nan" -> NaN

\* astype(bool), cell by cell: bool(x); bool(float('nan')) is True.
astype_bool(v) ==
    CASE v.type = "bool" -> Bool(v.b)
      [] v.type = "num" -> Bool(v.n # 0)
      [] v.type = "str" -> Bool(v.s # <<>>)
      [] v.type = "nan" -> Bool(TRUE)

\* A slip the coercion could have: missing flags are taken as false, as fillna(False)
\* before the cast would do.
CoerceBools_missing_is_false(t, i) ==
    [t EXCEPT !.rows =
        [r \in 1..Len(t.rows) |->
            [k \in 1..Len(t.cols) |->
                IF \E j \in i..Len(bool_cols) : bool_cols[j] = t.cols[k]
                THEN IF t.rows[r][k] = NaN THEN Bool(FALSE) ELSE astype_bool(t.rows[r][k])
                ELSE t.rows[r][k]]]]

RECURSIVE CoerceBools(_, _)
CoerceBools(t, i) ==
    IF i > Len(bool_cols) THEN t
    ELSE IF HasColumn(t, bool_cols[i])
         THEN CoerceBools(MapColumn(t, bool_cols[i], astype_bool), i + 1)
         ELSE CoerceBools(t, i + 1)

numeric_cols ==
    << <<"MinSalary">>, <<"MaxSalary">>, <<"RequiredMinAge">>, <<"RequiredMaxAge">> >>

\* The number a text spells, in tenths: [-]digits[.digit] between optional blanks; NaN for
\* any other text (the texts of the model carry at most one decimal).
RECURSIVE ValueOfDigits(_, _)
ValueOfDigits(s, n) == IF s = <<>> THEN n ELSE ValueOfDigits(Tail(s), 10 * n + DigitValue(Head(s)))

AllDigits(s) == s # <<>> /\ \A i \in 1..Len(s) : s[i] \in Digits

ParseNumber(text) ==
    LET s == Strip(text)
        neg == s # <<>> /\ Head(s) = "-"
        u == IF neg THEN Tail(s) ELSE s
        sgn == IF neg THEN -1 ELSE 1
    IN  IF AllDigits(u) THEN Num(sgn * 10 * ValueOfDigits(u, 0))
        ELSE IF Len(u) >= 3 /\ u[Len(u) - 1] = "." /\ AllDigits(SubSeq(u, 1, Len(u) - 2))
                /\ u[Len(u)] \in Digits
             THEN Num(sgn * (10 * ValueOfDigits(SubSeq(u, 1, Len(u) - 2), 0)
                                + DigitValue(u[Len(u)])))
             ELSE NaN

\* A slip the coercion could have: errors='ignore', which leaves an unparsable text as it is.
to_numeric_ignore(v) ==
    CASE v.type = "num" -> v
      [] v.type = "nan" -> NaN
      [] v.type = "str" -> IF ParseNumber(v.s) = NaN THEN v ELSE ParseNumber(v.s)
      [] v.type = "bool" -> Num(IF v.b THEN 10 ELSE 0)

\* pd.to_numeric(errors='coerce'), cell by cell.
to_numeric(v) ==
    CASE v.type = "num" -> v
      [] v.type = "nan" -> NaN
      [] v.type = "str" -> ParseNumber(v.s)
      [] v.type = "bool" -> Num(IF v.b THEN 10 ELSE 0)

\* The loop over numeric_cols from column i on.  pd.to_numeric raises TypeError when
\* df[col] is a DataFrame.
RECURSIVE CoerceNumerics(_, _)
CoerceNumerics(t, i) ==
    IF i > Len(numeric_cols) THEN Return(t)
    ELSE LET col == numeric_cols[i]
         IN  IF ~HasColumn(t, col) THEN CoerceNumerics(t, i + 1)
             ELSE IF ~IsSeries(t, col) THEN Raise("TypeError")
             ELSE CoerceNumerics(MapColumn(t, col, to_numeric), i + 1)

-----------------------------------------------------------------------------
(* The raw tables.                                                         *)

\* Most rows in a raw table.
MaxRows == 2

Jobpost(name) == <<"Jobpost_", name>>
Plain(name) == <<name>>

\* The column names of the raw exports tried: prefixed and unprefixed names, the misspelled
\* prefix, redundant columns, a column no stage names, and a name that two raw columns
\* take after the rename, and names in which a prefix is written twice.
RawSchemas ==
    { << Plain("MinSalary"), Plain("IsRemote"), <<"Company_", "SizeFa">> >>,
      << Jobpost("IsInternship"), Jobpost("MaxSalary"), Jobpost("RowNumber") >>,
      << Jobpost("MainJobCategory"), Plain("ProvinceFa"), Plain("RequiredExperienceYears") >>,
      << <<"Comany_", "SizeFa">>, Plain("ProvinceEn"), Plain("SalaryCanBeShown") >>,
      << Plain("RequiredMinAge"), Plain("Description") >>,
      << Jobpost("MinSalary"), Plain("MinSalary") >>,
      << Plain("RawTitle"), Jobpost("RawTitle") >>,
      << <<"Jobpost_", "Jobpost_", "ID">>, <<"Comany_", "Comany_", "NameFa">> >>,
      << Plain("RawTitle"), Plain("WorkTypeFa") >> }

\* The values a raw column holds, by the last token of its name; each column has the
\* values of one dtype, as pd.read_csv leaves it.
CellDomain(col) ==
    LET base == col[Len(col)]
    IN  CASE base = "MinSalary" -> {Str(<<"a", "b", "c">>), Str(<<"1", "2">>), NaN}
          [] base = "MaxSalary" -> {Num(120), Num(15), NaN}
          [] base = "RequiredMinAge" ->
                 {Str(<<" ", "7", " ">>), Str(<<"1", ".", "5">>), Str(<<"1", "2", "a">>)}
          [] base = "IsRemote" -> {Num(10), Num(0), NaN}
          [] base = "IsInternship" -> {Num(0), NaN}
          [] base = "SalaryCanBeShown" ->
                 {Str(<<"y", "e", "s">>), Str(<<"F", "a", "l", "s", "e">>), NaN}
          [] base = "SizeFa" -> {Str(SizeLabels[1]), Str(SizeLabels[3])}
          [] base = "MainJobCategory" ->
                 {Str(<<"I", "T", " ", "/", " ", "D", "e", "v", "O", "p", "s">>),
                  Str(<<"u0641", "u0631", "u0648", "u0634">>), NaN}
          [] base = "ProvinceFa" -> {Str(<<"u062A", "u0647", "u0631", "u0627", "u0646">>), NaN}
          [] base = "RequiredExperienceYears" -> {Num(20), NaN}
          [] base = "RawTitle" ->
                 {Str(<<"S", "e", "n", "i", "o", "r", " ", "B", "a", "c", "k", "-", "E", "n", "d">>),
                  NaN}
          [] base = "RowNumber" -> {Num(10)}
          [] base = "ProvinceEn" -> {Str(<<"T", "e", "h", "r", "a", "n">>)}
          [] OTHER -> {Str(<<"f", "u", "l", "l", " ", "t", "i", "m", "e">>), NaN}

RawRows(schema) ==
    {row \in [1..Len(schema) -> UNION {CellDomain(schema[i]) : i \in 1..Len(schema)}] :
        \A i \in 1..Len(schema) : row[i] \in CellDomain(schema[i])}

RawTables ==
    UNION {{Table(schema, rows) : rows \in UNION {[1..k -> RawRows(schema)] : k \in 0..MaxRows}} :
              schema \in RawSchemas}

-----------------------------------------------------------------------------
(* preprocess_job_data(raw_file_path, cleaned_file_path), stage by stage.  *)

NoFrame == Table(<<>>, <<>>)

Init ==
    /\ pc = "start"
    /\ raw_file \in {Missing, Unreadable} \cup RawTables
    /\ writable \in BOOLEAN
    /\ df = NoFrame
    /\ cleaned_file = Missing
    /\ printed = <<>>
    /\ exc = ""
    /\ Standardized_Size = <<>>
    /\ fn = ""
    /\ arg = None
    /\ ret = Pending

\* A slip the loading could have: the failure is reported and the run goes on with an
\* empty frame.
Load_goes_on ==
    /\ pc = "start"
    /\ df' = IF raw_file.kind = "table" THEN Table(raw_file.cols, raw_file.rows) ELSE df
    /\ printed' = printed \o
           <<"Starting preprocessing",
             IF raw_file.kind = "table" THEN "Raw dataset loaded successfully."
             ELSE IF raw_file.kind = "missing" THEN "Error: The file was not found."
             ELSE "An error occurred while loading the data">>
    /\ pc' = "loaded"
    /\ UNCHANGED <<raw_file, writable, cleaned_file, exc, Standardized_Size, fn, arg, ret>>

\* --- 2. Data Loading (lines 10, 36-45): pd.read_csv, or the message and return.
Load ==
    /\ pc = "start"
    /\ IF raw_file.kind = "table"
       THEN /\ df' = Table(raw_file.cols, raw_file.rows)
            /\ printed' = printed \o <<"Starting preprocessing", "Raw dataset loaded successfully.">>
            /\ pc' = "loaded"
       ELSE /\ df' = df
            /\ printed' = printed \o
                   <<"Starting preprocessing",
                     IF raw_file.kind = "missing" THEN "Error: The file was not found."
                     ELSE "An error occurred while loading the data">>
            /\ pc' = "returned"
    /\ UNCHANGED <<raw_file, writable, cleaned_file, exc, Standardized_Size, fn, arg, ret>>

\* --- 3. Column Standardization (lines 47-54): df.rename(columns=rename_map).
Rename ==
    /\ pc = "loaded"
    /\ df' = Table([i \in 1..Len(df.cols) |-> RenameColumn(df.cols[i])], df.rows)
    /\ pc' = "renamed"
    /\ UNCHANGED <<raw_file, writable, cleaned_file, printed, exc, Standardized_Size, fn, arg, ret>>

\* Lines 56-62: the redundant columns that exist are dropped.
Drop ==
    /\ pc = "renamed"
    /\ df' = DropColumns(df)
    /\ pc' = "dropped"
    /\ UNCHANGED <<raw_file, writable, cleaned_file, printed, exc, Standardized_Size, fn, arg, ret>>

\* --- 4. Text & Categorical Data Cleaning (lines 64-80).
Translate ==
    /\ pc = "dropped"
    /\ LET got == CleanColumns(df, 1)
       IN  IF got.kind = "raise"
           THEN /\ exc' = got.exc
                /\ pc' = "raised"
                /\ df' = df
                /\ printed' = Append(printed, "Starting word-by-word translation...")
           ELSE /\ df' = got.val
                /\ pc' = "translated"
                /\ exc' = exc
                /\ printed' = printed \o
                       <<"Starting word-by-word translation...", "Word replacement complete.">>
    /\ UNCHANGED <<raw_file, writable, cleaned_file, Standardized_Size, fn, arg, ret>>

\* A slip the order of the stages could have: the coercions are left out.
Fill_then_save ==
    /\ pc = "translated"
    /\ df' = FillColumns(df, 1)
    /\ pc' = "converted"
    /\ UNCHANGED <<raw_file, writable, cleaned_file, printed, exc, Standardized_Size, fn, arg, ret>>

\* --- 5. Handling Missing Values (lines 82-89).
Fill ==
    /\ pc = "translated"
    /\ df' = FillColumns(df, 1)
    /\ pc' = "filled"
    /\ UNCHANGED <<raw_file, writable, cleaned_file, printed, exc, Standardized_Size, fn, arg, ret>>

\* --- 6. Data Type Conversion, the boolean columns (lines 92-99).
ConvertBools ==
    /\ pc = "filled"
    /\ df' = CoerceBools(df, 1)
    /\ pc' = "bools"
    /\ UNCHANGED <<raw_file, writable, cleaned_file, printed, exc, Standardized_Size, fn, arg, ret>>

\* The numeric columns (lines 101-104).
ConvertNumerics ==
    /\ pc = "bools"
    /\ LET got == CoerceNumerics(df, 1)
       IN  IF got.kind = "raise"
           THEN /\ exc' = got.exc
                /\ pc' = "raised"
                /\ df' = df
           ELSE /\ df' = got.val
                /\ pc' = "converted"
                /\ exc' = exc
    /\ UNCHANGED <<raw_file, writable, cleaned_file, printed, Standardized_Size, fn, arg, ret>>

\* --- 7. Saving the Cleaned Data (lines 106-113): df.to_csv, or the message.
Save ==
    /\ pc = "converted"
    /\ IF writable
       THEN /\ cleaned_file' = Table(df.cols, df.rows)
            /\ printed' = Append(printed, "Preprocessing complete!")
       ELSE /\ cleaned_file' = cleaned_file
            /\ printed' = Append(printed, "An error occurred while saving the cleaned file")
    /\ pc' = "returned"
    /\ UNCHANGED <<raw_file, writable, df, exc, Standardized_Size, fn, arg, ret>>

-----------------------------------------------------------------------------
(* visualize_company_size_distribution (src/visualize_company_size.py),    *)
(* up to the column it derives.                                            *)

\* What pd.read_csv makes of a cell df.to_csv wrote: the texts 'nan' and '' read as missing.
ReadCsvCell(v) ==
    IF v.type = "str" /\ v.s \in {<<>>, <<"n", "a", "n">>} THEN NaN ELSE v

size_col == <<"Company_", "SizeFa">>

AnalyzeCompanySize ==
    /\ pc \in {"returned", "raised"}
    /\ IF cleaned_file.kind # "table"
       THEN /\ printed' = Append(printed, "Error: The file was not found.")
            /\ Standardized_Size' = Standardized_Size
       ELSE IF ~HasColumn(cleaned_file, size_col)
       THEN /\ printed' = Append(printed, "Error: Column not found in the cleaned dataset.")
            /\ Standardized_Size' = Standardized_Size
       ELSE /\ printed' = Append(printed, "Cleaned dataset loaded successfully.")
            /\ Standardized_Size' =
                   LET i == CHOOSE i \in 1..Len(cleaned_file.cols) : cleaned_file.cols[i] = size_col
                   IN  [r \in 1..Len(cleaned_file.rows) |->
                           standardize_company_size(ReadCsvCell(cleaned_file.rows[r][i]))]
    /\ pc' = "analyzed"
    /\ UNCHANGED <<raw_file, writable, df, cleaned_file, exc, fn, arg, ret>>

Next ==
    \/ Load
    \/ Rename
    \/ Drop
    \/ Translate
    \/ Fill
    \/ ConvertBools
    \/ ConvertNumerics
    \/ Save
    \/ AnalyzeCompanySize

Spec == Init /\ [][Next]_vars

-----------------------------------------------------------------------------
(* An analysis applies one helper to one cell of the cleaned table:        *)
(* df[col].apply(helper).                                                  *)

InitHelpers ==
    /\ fn \in Helpers
    /\ arg \in Args(fn)
    /\ ret = Pending
    /\ pc = "idle"
    /\ raw_file = Missing
    /\ writable = FALSE
    /\ df = NoFrame
    /\ cleaned_file = Missing
    /\ printed = <<>>
    /\ exc = ""
    /\ Standardized_Size = <<>>

ApplyStandardizeCompanySize ==
    /\ fn = "standardize_company_size"
    /\ ret = Pending
    /\ ret' = standardize_company_size(arg)
    /\ UNCHANGED <<fn, arg, pc, raw_file, writable, df, cleaned_file, printed, exc,
                   Standardized_Size>>

ApplyCategorizeSeniority ==
    /\ fn = "categorize_seniority"
    /\ ret = Pending
    /\ ret' = categorize_seniority(arg)
    /\ UNCHANGED <<fn, arg, pc, raw_file, writable, df, cleaned_file, printed, exc,
                   Standardized_Size>>

ApplyCategorizeExperience ==
    /\ fn = "categorize_experience"
    /\ ret = Pending
    /\ ret' = categorize_experience(arg)
    /\ UNCHANGED <<fn, arg, pc, raw_file, writable, df, cleaned_file, printed, exc,
                   Standardized_Size>>

ApplyParseSoftwareSkills ==
    /\ fn = "parse_software_skills"
    /\ ret = Pending
    /\ ret' = parse_software_skills(arg)
    /\ UNCHANGED <<fn, arg, pc, raw_file, writable, df, cleaned_file, printed, exc,
                   Standardized_Size>>

ApplyParseAcademicFields ==
    /\ fn = "parse_academic_fields"
    /\ ret = Pending
    /\ ret' = parse_academic_fields(arg)
    /\ UNCHANGED <<fn, arg, pc, raw_file, writable, df, cleaned_file, printed, exc,
                   Standardized_Size>>

ApplyParseLanguageSkills ==
    /\ fn = "parse_language_skills"
    /\ ret = Pending
    /\ ret' = parse_language_skills(arg)
    /\ UNCHANGED <<fn, arg, pc, raw_file, writable, df, cleaned_file, printed, exc,
                   Standardized_Size>>

ApplyParseDegreeLevel ==
    /\ fn = "parse_degree_level"
    /\ ret = Pending
    /\ ret' = parse_degree_level(arg)
    /\ UNCHANGED <<fn, arg, pc, raw_file, writable, df, cleaned_file, printed, exc,
                   Standardized_Size>>

\* The translation loop of preprocess_job_data (lines 70-79) on one cell of a designated
\* text column.
ApplyCleanColumn ==
    /\ fn = "clean_column"
    /\ ret = Pending
    /\ ret' = Return(CleanCell(arg))
    /\ UNCHANGED <<fn, arg, pc, raw_file, writable, df, cleaned_file, printed, exc,
                   Standardized_Size>>

\* df_it_filtered['RawTitle'].apply(standardize_it_role)
ApplyStandardizeItRole ==
    /\ fn = "standardize_it_role"
    /\ ret = Pending
    /\ ret' = standardize_it_role(arg)
    /\ UNCHANGED <<fn, arg, pc, raw_file, writable, df, cleaned_file, printed, exc,
                   Standardized_Size>>

NextHelpers ==
    \/ ApplyStandardizeCompanySize
    \/ ApplyCategorizeSeniority
    \/ ApplyCategorizeExperience
    \/ ApplyParseSoftwareSkills
    \/ ApplyParseAcademicFields
    \/ ApplyParseLanguageSkills
    \/ ApplyParseDegreeLevel
    \/ ApplyCleanColumn
    \/ ApplyStandardizeItRole

SpecHelpers == InitHelpers /\ [][NextHelpers]_vars

-----------------------------------------------------------------------------
(* Properties of preprocess_job_data, checked under Spec.                  *)

\* The stages that have a DataFrame in hand.
Loaded == raw_file.kind = "table" /\ pc # "start"
Written == cleaned_file.kind = "table"

\* The raw columns that are kept, in order: column k of the cleaned table is raw column
\* KeptRaw[k].
KeptRaw ==
    SelectSeq([i \in 1..Len(raw_file.cols) |-> i],
              LAMBDA i : RenameColumn(raw_file.cols[i]) \notin cols_to_drop)

InSeq(x, seq) == \E i \in 1..Len(seq) : seq[i] = x

\* C1: the cleaned table has exactly as many rows as the raw table, and so has the
\* DataFrame after every stage: no stage removes or adds a row.
C1_RowCountPreserved ==
    /\ Loaded => Len(df.rows) = Len(raw_file.rows)
    /\ Written => Len(cleaned_file.rows) = Len(raw_file.rows)

\* A table of two rows, one with a missing province and one with a missing category, has
\* been written.
C1_Witness ==
    /\ Written
    /\ Len(cleaned_file.rows) = 2
    /\ HasColumn(raw_file, <<"ProvinceFa">>)
    /\ raw_file.rows[1][2] = NaN
    /\ raw_file.rows[2][1] = NaN

\* C2: after the boolean coercion, and in the cleaned table, every cell of every designated
\* boolean column is a bool, whatever the raw cell was; the coercion raises nothing, also
\* when designated columns are absent.
C2_BooleanColumnsAreBool ==
    /\ (Loaded /\ pc \in {"bools", "converted", "returned", "analyzed"}) =>
           \A i \in 1..Len(df.cols) : InSeq(df.cols[i], bool_cols) =>
               \A r \in 1..Len(df.rows) : df.rows[r][i].type = "bool"
    /\ Written =>
           \A i \in 1..Len(cleaned_file.cols) : InSeq(cleaned_file.cols[i], bool_cols) =>
               \A r \in 1..Len(cleaned_file.rows) : cleaned_file.rows[r][i].type = "bool"
    /\ pc = "bools" => exc = ""

\* A written table whose IsRemote column held a missing cell and a numeric flag and that
\* has none of the other designated boolean columns.
C2_Witness ==
    /\ Written
    /\ HasColumn(cleaned_file, <<"IsRemote">>)
    /\ ~HasColumn(cleaned_file, <<"IsInternship">>)
    /\ {NaN, Num(0)} \subseteq ColumnCells(raw_file, <<"IsRemote">>)

\* A text no number can be read from: it holds a character that is no digit, point, sign
\* or blank.
Unparsable(v) ==
    v.type = "str" /\ \E i \in 1..Len(v.s) : v.s[i] \notin Digits \cup {".", "-", " "}

\* C3: in the cleaned table every cell of MinSalary, MaxSalary, RequiredMinAge and
\* RequiredMaxAge is a number or the missing marker; an unparsable raw cell becomes the
\* missing marker, every other raw cell that is not missing becomes a number, and the row
\* stays; the numeric coercion raises only when two columns share a designated name.
C3_NumericColumnsAreNumeric ==
    /\ Written =>
           /\ Len(cleaned_file.rows) = Len(raw_file.rows)
           /\ \A k \in 1..Len(cleaned_file.cols) : InSeq(cleaned_file.cols[k], numeric_cols) =>
                  \A r \in 1..Len(cleaned_file.rows) :
                      LET raw == raw_file.rows[r][KeptRaw[k]]
                          cell == cleaned_file.rows[r][k]
                      IN  /\ cell.type \in {"num", "nan"}
                          /\ Unparsable(raw) => cell = NaN
                          /\ (raw.type # "nan" /\ ~Unparsable(raw)) => cell.type = "num"
    /\ pc = "raised" =>
           \E i, j \in 1..Len(df.cols) : i # j /\ df.cols[i] = df.cols[j]

\* A written table whose MinSalary column held 'abc' in one row and '12' in the other.
C3_Witness ==
    /\ Written
    /\ Len(cleaned_file.rows) = 2
    /\ HasColumn(cleaned_file, <<"MinSalary">>)
    /\ raw_file.rows[1][1] = Str(<<"a", "b", "c">>)
    /\ raw_file.rows[2][1] = Str(<<"1", "2">>)
    /\ cleaned_file.rows[1][1] = NaN
    /\ cleaned_file.rows[2][1] = Num(120)

\* The raw table of the end-to-end example: one row with MinSalary = "abc", IsRemote = 1
\* and Company_SizeFa = "زیر ۱۰ نفر".
C4_RawTable ==
    Table(<< <<"MinSalary">>, <<"IsRemote">>, <<"Company_", "SizeFa">> >>,
          << << Str(<<"a", "b", "c">>), Num(10),
                Str(<<"u0632", "u06CC", "u0631", " ", "u06F1", "u06F0", " ",
                      "u0646", "u0641", "u0631">>) >> >>)

\* C4: from that raw table, when the destination is writable, the run writes a cleaned
\* table of one row whose MinSalary is missing and whose IsRemote is true, and
\* standardize_company_size of its Company_SizeFa is the under-10 label 'زیر ۱۰ نفر'.
C4_EndToEnd ==
    (raw_file = C4_RawTable /\ writable) =>
        /\ pc \in {"returned", "analyzed"} =>
               /\ Written
               /\ Len(cleaned_file.rows) = 1
               /\ cleaned_file.rows[1][1] = NaN
               /\ cleaned_file.rows[1][2] = Bool(TRUE)
        /\ pc = "analyzed" =>
               Standardized_Size = << Return(Str(SizeLabels[1])) >>

C4_Witness ==
    /\ raw_file = C4_RawTable
    /\ writable
    /\ pc = "analyzed"
    /\ Len(Standardized_Size) = 1

-----------------------------------------------------------------------------
(* Properties of the helpers, checked under SpecHelpers.                   *)

Called(f) == fn = f /\ ret # Pending

\* The digit sequence of tier t the documentation gives, in Persian or in Western digits:
\* 'زیر10', '1150', '51200', '201500', '5011000', 'بیشاز1000' and their Persian forms.
DocumentedPattern(t, persian) == CanonicalSize(t, persian, FALSE, FALSE, FALSE)

MatchesDocumentedPattern(s) ==
    \E t \in 1..6, persian \in BOOLEAN : Contains(NormalizeSize(s), DocumentedPattern(t, persian))

\* C5: the raw string of every tier, in Persian and in Western digits, with or without
\* spaces, 'تا' and 'نفر', maps to the label of that tier.
C5_EveryTierInBothScripts ==
    (Called("standardize_company_size") /\ arg.type = "str") =>
        \A t \in 1..6, p \in BOOLEAN, s \in BOOLEAN, c \in BOOLEAN, n \in BOOLEAN :
            arg.s = CanonicalSize(t, p, s, c, n) => ret = Return(Str(SizeLabels[t]))

\* C6: "زیر ۱۰ نفر" and "زیر10نفر" map to the same label, the under-10 one; "Under 10"
\* and every string in which, after spaces, 'تا' and 'نفر' are removed, none of the six
\* documented patterns occurs map to 'نامشخص'.
C6_VariantsAndUnspecified ==
    (Called("standardize_company_size") /\ arg.type = "str") =>
        /\ arg.s \in {CanonicalSize(1, TRUE, TRUE, FALSE, TRUE),
                      CanonicalSize(1, FALSE, FALSE, FALSE, TRUE)}
               => ret = Return(Str(SizeLabels[1]))
        /\ arg.s = UNDER_10 => ret = Return(Str(UNSPECIFIED))
        /\ ~MatchesDocumentedPattern(arg.s) => ret = Return(Str(UNSPECIFIED))

\* The keywords the contract names for the manager and the senior level; the junior level
\* is "a junior keyword".
ContractManagerWords ==
    { <<"m", "a", "n", "a", "g", "e", "r">>, <<"u0645", "u062F", "u06CC", "u0631">>,
      <<"h", "e", "a", "d">>, <<"u0633", "u0631", "u067E", "u0631", "u0633", "u062A">>,
      <<"c", "h", "i", "e", "f">>, <<"u0631", "u0626", "u06CC", "u0633">> }
ContractSeniorWords ==
    { <<"s", "e", "n", "i", "o", "r">>, <<"u0627", "u0631", "u0634", "u062F">> }

HasWord(words, s) == \E w \in words : Contains(Lower(s), w)
HasJuniorWord(s) == \E i \in 1..Len(junior_keywords) : Contains(Lower(s), junior_keywords[i])

InBand(b, n) ==
    CASE b = 1 -> n <= 10
      [] b = 2 -> 10 < n /\ n <= 30
      [] b = 3 -> 30 < n /\ n <= 70
      [] b = 4 -> 70 < n /\ n <= 100
      [] b = 5 -> n > 100

C9_NormalizersAreTotal ==
    (ret # Pending /\ fn \in {"standardize_company_size", "categorize_seniority",
                              "categorize_experience", "parse_degree_level"})
        => (ret.kind = "return" /\ ret.val.type = "str")

\* A well-formed embedded list: the text (its quotes made double) decodes to a list of
\* mappings whose attribute values are all strings.
WellFormedList(v) ==
    /\ v.type = "str"
    /\ LET decoded == json_loads(Replace(v.s, <<"'">>, <<"\"">>))
       IN  /\ decoded.kind = "return"
           /\ decoded.val.type = "list"
           /\ \A i \in 1..Len(decoded.val.items) :
                  /\ decoded.val.items[i].type = "dict"
                  /\ \A m \in 1..Len(decoded.val.items[i].pairs) :
                         decoded.val.items[i].pairs[m].v.type = "str"

\* C10: for every input that is no well-formed list of mapping records with string
\* attributes, the three list parsers return the empty list and parse_degree_level returns
\* 'نامشخص'; none raises.
C10_MalformedInputIsAbsorbed ==
    (ret # Pending /\ ~WellFormedList(arg)) =>
        /\ fn \in {"parse_software_skills", "parse_academic_fields", "parse_language_skills"}
               => ret = Return(List(<<>>))
        /\ fn = "parse_degree_level" => ret = Return(Str(UNSPECIFIED))

-----------------------------------------------------------------------------
(* Properties of the embedded-list parsers, checked under SpecHelpers.     *)

\* The attribute a list parser reads.
AttrOf(f) ==
    CASE f = "parse_software_skills" -> "TitleFa"
      [] f = "parse_academic_fields" -> "FieldType"
      [] f = "parse_language_skills" -> "Languages_TitleFa"
      [] OTHER -> "DegreeLevel"

ListParsers == {"parse_software_skills", "parse_academic_fields", "parse_language_skills"}

\* What the argument decodes to once its quotes are made double.
Decoded == json_loads(Replace(arg.s, <<"'">>, <<"\"">>))

\* The argument is a text that decodes to a list of mappings.
DecodesToRecords ==
    /\ arg.type = "str"
    /\ Decoded.kind = "return"
    /\ Decoded.val.type = "list"
    /\ \A i \in 1..Len(Decoded.val.items) : Decoded.val.items[i].type = "dict"

\* The value record x holds under the attribute, None when it has none.
AttrValue(x, attr) ==
    IF \E m \in 1..Len(x.pairs) : x.pairs[m].k = <<attr>>
    THEN x.pairs[CHOOSE m \in 1..Len(x.pairs) :
                     x.pairs[m].k = <<attr>> /\ \A n \in (m + 1)..Len(x.pairs) : x.pairs[n].k # <<attr>>].v
    ELSE None

\* A string with a character that is no whitespace.
HasText(v) == v.type = "str" /\ \E i \in 1..Len(v.s) : v.s[i] \notin Whitespace

\* r is v without its leading and trailing whitespace.
IsTrimOf(r, v) ==
    /\ r # <<>>
    /\ r[1] \notin Whitespace
    /\ r[Len(r)] \notin Whitespace
    /\ \E i \in 1..Len(v) :
           /\ i + Len(r) - 1 <= Len(v)
           /\ r = SubSeq(v, i, i + Len(r) - 1)
           /\ \A k \in 1..Len(v) : (k < i \/ k > i + Len(r) - 1) => v[k] \in Whitespace

\* The elements a list parser keeps, as indices into the decoded list, in input order.
KeptElements(attr) ==
    SelectSeq([i \in 1..Len(Decoded.val.items) |-> i],
              LAMBDA i : HasText(AttrValue(Decoded.val.items[i], attr)))

\* C11: for a text that decodes to a list of mappings, a list parser that returns returns,
\* in input order, the trimmed attribute value of exactly the elements whose attribute is a
\* string with a character that is no whitespace; every returned item is a non-empty
\* trimmed string and the result is no longer than the input list; and the parser does
\* return when every attribute value is a string or null.
C11_TrimmedValuesInOrder ==
    (Called(fn) /\ fn \in ListParsers /\ DecodesToRecords) =>
        LET attr == AttrOf(fn)
            items == Decoded.val.items
            kept == KeptElements(attr)
        IN  /\ (\A i \in 1..Len(items) : AttrValue(items[i], attr).type \in {"str", "none"})
                   => ret.kind = "return"
            /\ ret.kind = "return" =>
                   /\ ret.val.type = "list"
                   /\ Len(ret.val.items) = Len(kept)
                   /\ Len(ret.val.items) <= Len(items)
                   /\ \A m \in 1..Len(kept) :
                          /\ ret.val.items[m].type = "str"
                          /\ IsTrimOf(ret.val.items[m].s, AttrValue(items[kept[m]], attr).s)

\* parse_academic_fields has been given a list whose first record holds only a blank and
\* whose second holds ' b ', and returned ['b'].
C11_Witness ==
    /\ Called("parse_academic_fields")
    /\ arg = Str(ListText(<<"blank", "padded">>, "FieldType", "'"))
    /\ ret = Return(List(<< Str(<<"b">>) >>))

\* The argument is a text that decodes to a list.
DecodesToList == arg.type = "str" /\ Decoded.kind = "return" /\ Decoded.val.type = "list"

HasAttr(x, attr) == x.type = "dict" /\ \E m \in 1..Len(x.pairs) : x.pairs[m].k = <<attr>>

\* C12: for a text that decodes to a list, parse_degree_level returns 'نامشخص' when the
\* list is empty, the DegreeLevel of the first element when that element is a mapping that
\* has one, and 'نامشخص' when the first element is a mapping without DegreeLevel, whatever
\* the later elements hold.
C12_FirstElementOnly ==
    (Called("parse_degree_level") /\ DecodesToList) =>
        LET items == Decoded.val.items
        IN  /\ items = <<>> => ret = Return(Str(UNSPECIFIED))
            /\ (items # <<>> /\ HasAttr(items[1], "DegreeLevel"))
                   => ret = Return(AttrValue(items[1], "DegreeLevel"))
            /\ (items # <<>> /\ items[1].type = "dict" /\ ~HasAttr(items[1], "DegreeLevel"))
                   => ret = Return(Str(UNSPECIFIED))

\* The first record has no DegreeLevel, the second has one, and the result is 'نامشخص'.
C12_Witness ==
    /\ Called("parse_degree_level")
    /\ arg = Str(ListText(<<"absent", "value">>, "DegreeLevel", "'"))
    /\ HasAttr(Decoded.val.items[2], "DegreeLevel")
    /\ ret = Return(Str(UNSPECIFIED))

-----------------------------------------------------------------------------
(* Properties of the Field Translator.                                     *)

\* Whether source phrase i of the dictionary occurs in s, in any letter case.
HasSourcePhrase(s, i) == Contains(Lower(s), Lower(english_to_persian_map[i][1]))

\* A text that is fully translated: it holds no source phrase.
FullyTranslated(s) == \A i \in 1..Len(english_to_persian_map) : ~HasSourcePhrase(s, i)

\* C13: the translator leaves a fully translated text unchanged, and, applied to a text it
\* has produced, returns that text unchanged.
C13_TranslatorIdempotent ==
    (Called("clean_column") /\ arg.type = "str") =>
        /\ FullyTranslated(arg.s) => ret.val.s = arg.s
        /\ TranslateText(ret.val.s) = ret.val.s

\* C14: after the translator has run on a cell of a designated text column, the cell
\* holds no occurrence, in any letter case, of any source phrase of the dictionary.
C14_NoSourcePhraseLeft ==
    Called("clean_column") =>
        \A i \in 1..Len(english_to_persian_map) :
            ~Contains(Lower(ret.val.s), Lower(english_to_persian_map[i][1]))

-----------------------------------------------------------------------------
(* Further properties of preprocess_job_data, checked under Spec.          *)

\* The value categorical_fills gives for column col.
FillValueOf(col) ==
    categorical_fills[CHOOSE j \in 1..Len(categorical_fills) : categorical_fills[j][1] = col][2]

HasFill(col) == \E j \in 1..Len(categorical_fills) : categorical_fills[j][1] = col

\* C15: in the cleaned table, a cell of ProvinceFa, WorkTypeFa or MainJobCategory that was
\* missing in the raw table holds 'نامشخص', and a cell of RequiredExperienceYears that was
\* missing holds 0.
C15_MissingValuesFilled ==
    Written =>
        \A k \in 1..Len(cleaned_file.cols) : HasFill(cleaned_file.cols[k]) =>
            \A r \in 1..Len(cleaned_file.rows) :
                raw_file.rows[r][KeptRaw[k]] = NaN
                    => cleaned_file.rows[r][k] = FillValueOf(cleaned_file.cols[k])

\* The name the contract gives raw column col: 'Jobpost_X' becomes 'X', 'Comany_X' becomes
\* 'Company_X', any other name stays.
ContractName(col) ==
    IF col # <<>> /\ Head(col) = "Jobpost_" THEN Tail(col)
    ELSE IF col # <<>> /\ Head(col) = "Comany_" THEN <<"Company_">> \o Tail(col)
    ELSE col

HasOldPrefix(col) == col # <<>> /\ Head(col) \in {"Jobpost_", "Comany_"}

\* C16: after the rename every raw column carries the name the contract gives it, and no
\* column of the cleaned table has a name that starts with 'Jobpost_' or 'Comany_'.
C16_UnprefixedNames ==
    /\ (Loaded /\ pc = "renamed") =>
           /\ Len(df.cols) = Len(raw_file.cols)
           /\ \A i \in 1..Len(df.cols) : df.cols[i] = ContractName(raw_file.cols[i])
    /\ Written => \A k \in 1..Len(cleaned_file.cols) : ~HasOldPrefix(cleaned_file.cols[k])

\* The messages of a load that failed.
LoadFailureMessages ==
    {"Error: The file was not found.", "An error occurred while loading the data"}

\* C17: when the raw file is missing or cannot be loaded, the first step of the run prints
\* the failure message and returns, and no step changes the DataFrame or the file at
\* cleaned_file_path or enters a transformation stage.
C17_InputAbsentHalts ==
    [][raw_file.kind # "table" =>
           /\ df' = df
           /\ cleaned_file' = cleaned_file
           /\ pc' \in {"returned", "analyzed"}
           /\ pc = "start" =>
                  /\ pc' = "returned"
                  /\ Len(printed') = Len(printed) + 2
                  /\ printed'[Len(printed')] \in LoadFailureMessages]_vars

\* The run on a missing raw file has returned after the message, with nothing written.
C17_Witness ==
    /\ raw_file = Missing
    /\ pc = "returned"
    /\ printed = <<"Starting preprocessing", "Error: The file was not found.">>
    /\ cleaned_file = Missing

\* C18: a run whose destination is unwritable does not end as a successful run ends (with
\* a plain return): it ends with an exception for the caller; and the write is not tried
\* again: nothing is ever written.
C18_WriteFailureIsReported ==
    (Loaded /\ ~writable) =>
        /\ pc \notin {"returned", "analyzed"}
        /\ cleaned_file = Missing

-----------------------------------------------------------------------------
(* The label sets of the normalizers, checked under SpecHelpers.           *)

SizeLabelSet == {Str(SizeLabels[t]) : t \in 1..Len(SizeLabels)} \cup {Str(UNSPECIFIED)}
SeniorityLabelSet ==
    {Str(LABEL_MANAGER), Str(LABEL_SENIOR), Str(LABEL_JUNIOR), Str(LABEL_MID), Str(UNSPECIFIED)}
ExperienceLabelSet ==
    {Str(ExperienceLabels[b]) : b \in 1..Len(ExperienceLabels)} \cup {Str(UNSPECIFIED)}

\* C19: whenever it returns, standardize_company_size returns one of the six tier labels or
\* 'نامشخص', categorize_seniority one of its four labels or 'نامشخص', and
\* categorize_experience one of its five band labels or 'نامشخص'.
C19_LabelSets ==
    (ret # Pending /\ ret.kind = "return") =>
        /\ fn = "standardize_company_size" => ret.val \in SizeLabelSet
        /\ fn = "categorize_seniority" => ret.val \in SeniorityLabelSet
        /\ fn = "categorize_experience" => ret.val \in ExperienceLabelSet

\* standardize_company_size has been given a free-form string that names no tier and has
\* returned 'نامشخص'.
C19_Witness ==
    /\ Called("standardize_company_size")
    /\ arg = Str(UNDER_10)
    /\ ret = Return(Str(UNSPECIFIED))

\* C20: a cell of a designated text column that is missing or is no string is the same
\* value after the translation.
C20_NonStringsPassThrough ==
    (Called("clean_column") /\ arg.type # "str") => ret = Return(arg)

-----------------------------------------------------------------------------
(* Frame properties of preprocess_job_data, checked under Spec.            *)

\* The column is named by none of the stages that rewrite values.
Undesignated(col) ==
    /\ ~InSeq(col, columns_to_clean)
    /\ ~HasFill(col)
    /\ ~InSeq(col, bool_cols)
    /\ ~InSeq(col, numeric_cols)

\* C21: in the cleaned table a cell that was missing in the raw table is still missing
\* unless its column is ProvinceFa, WorkTypeFa, MainJobCategory, RequiredExperienceYears or
\* a designated boolean column; and every cell of a column no stage names is the raw cell.
C21_FillOnlyEnumeratedColumns ==
    Written =>
        \A k \in 1..Len(cleaned_file.cols) : \A r \in 1..Len(cleaned_file.rows) :
            LET col == cleaned_file.cols[k]
                raw == raw_file.rows[r][KeptRaw[k]]
                cell == cleaned_file.rows[r][k]
            IN  /\ (raw = NaN /\ ~HasFill(col) /\ ~InSeq(col, bool_cols)) => cell = NaN
                /\ Undesignated(col) => cell = raw

\* The redundant columns the contract lists, by their names after the rename.
RedundantNames ==
    { <<"RowNumber">>, <<"ProvinceEn">>, <<"WorkTypeEn">>, <<"IndustryEn">>, <<"BenefitEn">>,
      <<"CityEn">>, <<"CompanyOwnershipTypesEn">>, <<"SizeEn">>, <<"ActivityTypeEn">>,
      <<"Company_", "ProvinceEn">> }

\* The raw columns whose renamed name is not redundant, in order.
NotRedundant ==
    SelectSeq([i \in 1..Len(raw_file.cols) |-> i],
              LAMBDA i : RenameColumn(raw_file.cols[i]) \notin RedundantNames)

\* C22: after the drop, and in the cleaned table, the columns are the renamed raw columns
\* that are not redundant, in their order: no redundant column is left and no other column
\* is dropped; the drop raises nothing, whichever redundant columns the input lacks.
C22_RedundantColumnsDropped ==
    /\ (Loaded /\ pc = "dropped") =>
           /\ df.cols = [k \in 1..Len(NotRedundant) |-> RenameColumn(raw_file.cols[NotRedundant[k]])]
           /\ exc = ""
    /\ Written =>
           cleaned_file.cols =
               [k \in 1..Len(NotRedundant) |-> RenameColumn(raw_file.cols[NotRedundant[k]])]

\* A written table whose raw table had ProvinceEn and no RowNumber: ProvinceEn is gone, the
\* two other columns are kept.
C22_Witness ==
    /\ Written
    /\ HasColumn(raw_file, <<"ProvinceEn">>)
    /\ ~HasColumn(raw_file, <<"Jobpost_", "RowNumber">>)
    /\ ~HasColumn(cleaned_file, <<"ProvinceEn">>)
    /\ Len(cleaned_file.cols) = 2


-----------------------------------------------------------------------------
(* Further properties of the Field Translator, checked under SpecHelpers.  *)

\* How many times token c occurs in s.
Count(s, c) == Cardinality({i \in 1..Len(s) : s[i] = c})

\* Whether s holds the phrase in any letter case.
HoldsPhrase(s, phrase) == Contains(Lower(s), Lower(phrase))

\* s holds no source phrase of the dictionary but '/'.
OnlySlashes(s) ==
    \A i \in 1..Len(english_to_persian_map) :
        english_to_persian_map[i][1] # <<"/">> => ~HasSourcePhrase(s, i)

\* s holds none of the source phrases whose translation adds or removes a separator:
\* 'HSE' (its translation holds a comma), 'UI/UX' (the slash goes with the phrase) and
\* 'Sys-Admin' (the hyphen goes with the phrase).
NoSeparatorPhrase(s) ==
    /\ ~HoldsPhrase(s, <<"H", "S", "E">>)
    /\ ~HoldsPhrase(s, <<"U", "I", "/", "U", "X">>)
    /\ ~HoldsPhrase(s, <<"S", "y", "s", "-", "A", "d", "m", "i", "n">>)

\* C23: in a cell of a designated text column every ' / ' becomes the comma and a space,
\* and every slash left after that becomes a hyphen, never a comma: the cleaned text holds
\* no slash; it has one more comma for each ' / ' replaced (each replacement shortens the
\* text by one) and one more hyphen for each slash left after that step; a text with no
\* other source phrase is exactly the text with these two replacements made in that order.
C23_SeparatorBeforeDictionary ==
    (Called("clean_column") /\ arg.type = "str") =>
        LET separated == Replace(arg.s, <<" ", "/", " ">>, <<"u060C", " ">>)
        IN  /\ Count(ret.val.s, "/") = 0
            /\ NoSeparatorPhrase(arg.s) =>
                   /\ Count(ret.val.s, "u060C") =
                          Count(arg.s, "u060C") + (Len(arg.s) - Len(separated))
                   /\ Count(ret.val.s, "-") = Count(arg.s, "-") + Count(separated, "/")
            /\ OnlySlashes(arg.s) => ret.val.s = Replace(separated, <<"/">>, <<"-">>)

\* The cell 'Back / End/IT' has been cleaned: one comma for the ' / ', one hyphen for the
\* other slash.
C23_Witness ==
    /\ Called("clean_column")
    /\ arg = Str(<<"B", "a", "c", "k", " ", "/", " ", "E", "n", "d", "/", "I", "T">>)
    /\ Count(ret.val.s, "u060C") = 1
    /\ Count(ret.val.s, "-") = 1
    /\ Count(ret.val.s, "/") = 0


\* How many times s holds the phrase, in any letter case, counting from the left and
\* without overlap.
RECURSIVE CountPhrase(_, _)
CountPhrase(s, phrase) ==
    IF Len(s) < Len(phrase) THEN 0
    ELSE IF Lower(SubSeq(s, 1, Len(phrase))) = Lower(phrase)
         THEN 1 + CountPhrase(SubSeq(s, Len(phrase) + 1, Len(s)), phrase)
         ELSE CountPhrase(Tail(s), phrase)

PhraseIT == <<"I", "T">>
PhraseWith == <<"w", "i", "t", "h">>
PhraseBackEnd == <<"B", "a", "c", "k", "-", "E", "n", "d">>

\* The translation the dictionary gives for a source phrase.
TranslationOf(phrase) ==
    english_to_persian_map[CHOOSE i \in 1..Len(english_to_persian_map) :
                               english_to_persian_map[i][1] = phrase][2]

\* s holds no source phrase but 'IT', 'with', 'Back-End' and '/'.
OnlyShortPhrases(s) ==
    \A i \in 1..Len(english_to_persian_map) :
        english_to_persian_map[i][1] \notin {PhraseIT, PhraseWith, PhraseBackEnd, <<"/">>}
            => ~HasSourcePhrase(s, i)

\* C24: the dictionary replaces literal substrings, in any letter case and inside larger
\* words, entry by entry in insertion order.  The cleaned text holds 'it' in no letter
\* case; 'IT' comes before 'with' in the dictionary, so the 'it' inside 'with' is replaced
\* first and the letters 'w' and 'h' around it stay; and in a text that holds no source
\* phrase but 'IT', 'with', 'Back-End' and '/', each occurrence of 'it' and of 'Back-End',
\* in any case and anywhere, has been exchanged for its translation (the length says so).
C24_LiteralNoCaseInOrder ==
    (Called("clean_column") /\ arg.type = "str") =>
        LET separated == Replace(arg.s, <<" ", "/", " ">>, <<"u060C", " ">>)
        IN  /\ ~HoldsPhrase(ret.val.s, PhraseIT)
            /\ Count(ret.val.s, "w") = Count(arg.s, "w")
            /\ Count(ret.val.s, "h") = Count(arg.s, "h")
            /\ OnlyShortPhrases(arg.s) =>
                   Len(ret.val.s) =
                       Len(separated)
                       + CountPhrase(separated, PhraseIT)
                             * (Len(TranslationOf(PhraseIT)) - Len(PhraseIT))
                       + CountPhrase(separated, PhraseBackEnd)
                             * (Len(TranslationOf(PhraseBackEnd)) - Len(PhraseBackEnd))

\* The cell 'with' has been cleaned: it is 'w', the translation of 'IT', 'h'.
C24_Witness ==
    /\ Called("clean_column")
    /\ arg = Str(PhraseWith)
    /\ ret = Return(Str(<<"w">> \o TranslationOf(PhraseIT) \o <<"h">>))


-----------------------------------------------------------------------------
(* The order of the stages of preprocess_job_data, checked under Spec.     *)

\* The place of a position in the run: the stages in the order of the contract, then the
\* end of the run, then the analysis that reads the cleaned file.
StageRank(p) ==
    CASE p = "start" -> 0
      [] p = "loaded" -> 1
      [] p = "renamed" -> 2
      [] p = "dropped" -> 3
      [] p = "translated" -> 4
      [] p = "filled" -> 5
      [] p = "bools" -> 6
      [] p = "converted" -> 7
      [] p \in {"returned", "raised"} -> 8
      [] p = "analyzed" -> 9

\* What C25 says of one step of a run.
StageStep ==
    /\ \/ StageRank(pc') = StageRank(pc) + 1
       \/ (pc = "start" /\ pc' = "returned" /\ raw_file.kind # "table")
       \/ (pc' = "raised" /\ exc' # "")
    /\ df' # df => StageRank(pc') \in 1..7
    /\ cleaned_file' # cleaned_file =>
           /\ pc = "converted"
           /\ pc' = "returned"
           /\ cleaned_file' = Table(df.cols, df.rows)
    /\ pc' = "bools" =>
           \A k \in 1..Len(df'.cols) :
               raw_file.cols[KeptRaw[k]] = Jobpost("IsInternship") =>
                   /\ df'.cols[k] = Plain("IsInternship")
                   /\ \A r \in 1..Len(df'.rows) :
                          df'.rows[r][k] = Bool(raw_file.rows[r][KeptRaw[k]] # Num(0))

\* C25: every step of a run completes the next stage in the one order load, rename, drop,
\* translation, fill, boolean coercion, numeric coercion, write, or ends the run, so that
\* no stage happens twice or out of order; the run ends without the later stages only at
\* a failed load or at an exception; only the stages before the write change the
\* DataFrame; the file is written only by the step after the numeric coercion, and holds
\* the DataFrame of that moment; and the boolean coercion finds a raw column
\* 'Jobpost_IsInternship' under its new name 'IsInternship'.
C25_StagesInOrder ==
    [][StageStep]_vars

\* A run has gone through every stage and has written the table: the raw column
\* 'Jobpost_IsInternship' held the number 0, the cleaned column 'IsInternship' holds false.
C25_Witness ==
    /\ Written
    /\ pc = "returned"
    /\ printed = <<"Starting preprocessing", "Raw dataset loaded successfully.",
                   "Starting word-by-word translation...", "Word replacement complete.",
                   "Preprocessing complete!">>
    /\ HasColumn(raw_file, Jobpost("IsInternship"))
    /\ Len(raw_file.rows) = 1
    /\ raw_file.rows[1][1] = Num(0)
    /\ HasColumn(cleaned_file, Plain("IsInternship"))
    /\ cleaned_file.rows[1][1] = Bool(FALSE)


\* The flags IsRemote and IsInternship, by their names in the cleaned table.
FlagNames == {Plain("IsRemote"), Plain("IsInternship")}

\* C26: a flag that is missing in the raw table is true in the cleaned table: a posting
\* with no IsRemote or no IsInternship value is written as remote or as an internship.
C26_MissingFlagIsTrue ==
    Written =>
        \A k \in 1..Len(cleaned_file.cols) : \A r \in 1..Len(cleaned_file.rows) :
            (cleaned_file.cols[k] \in FlagNames /\ raw_file.rows[r][KeptRaw[k]] = NaN)
                => cleaned_file.rows[r][k] = Bool(TRUE)

\* A written table with two postings, one without an IsInternship value and one with the
\* value 0: the first is written as an internship, the second is not.
C26_Witness ==
    /\ Written
    /\ HasColumn(cleaned_file, Plain("IsInternship"))
    /\ Len(raw_file.rows) = 2
    /\ raw_file.rows[1][1] = NaN
    /\ raw_file.rows[2][1] = Num(0)
    /\ cleaned_file.rows[1][1] = Bool(TRUE)
    /\ cleaned_file.rows[2][1] = Bool(FALSE)


-----------------------------------------------------------------------------
(* The second copy of standardize_company_size                             *)
(* (src/visualize_salary_by_company_size.py), written out as the if/elif   *)
(* chain of its source.                                                    *)

\* standardize_company_size of visualize_salary_by_company_size.py (lines 23-43); the
\* third condition holds the same Bengali digits as the first copy.
standardize_company_size_of_salary_script(size_str) ==
    IF size_str.type # "str" THEN Return(Str(<<"u0646", "u0627", "u0645", "u0634", "u062E",
            "u0635">>))
    ELSE LET normalized_str ==
                 Replace(Replace(Replace(size_str.s, <<" ">>, <<>>), <<"u062A", "u0627">>,
                         <<>>),
                         <<"u0646", "u0641", "u0631">>, <<>>)
         IN  IF Contains(normalized_str, <<"u0632", "u06CC", "u0631", "u06F1", "u06F0">>)
                   \/ Contains(normalized_str, <<"u0632", "u06CC", "u0631", "1", "0">>)
             THEN Return(Str(<<"u0632", "u06CC", "u0631", " ", "u06F1", "u06F0", " ", "u0646",
                     "u0641", "u0631">>))
             ELSE IF Contains(normalized_str, <<"u06F1", "u06F1", "u06F5", "u06F0">>)
                   \/ Contains(normalized_str, <<"1", "1", "5", "0">>)
             THEN Return(Str(<<"u06F1", "u06F1", " ", "u062A", "u0627", " ", "u06F5", "u06F0",
                     " ", "u0646", "u0641", "u0631">>))
             ELSE IF Contains(normalized_str, <<"u06F5", "u06F1", "u09E8", "u09E6", "u09E6">>)
                   \/ Contains(normalized_str, <<"5", "1", "2", "0", "0">>)
             THEN Return(Str(<<"u06F5", "u06F1", " ", "u062A", "u0627", " ", "u06F2", "u06F0",
                     "u06F0", " ", "u0646", "u0641", "u0631">>))
             ELSE IF Contains(normalized_str, <<"u06F2", "u06F0", "u06F1", "u06F5", "u06F0",
                     "u06F0">>)
                   \/ Contains(normalized_str, <<"2", "0", "1", "5", "0", "0">>)
             THEN Return(Str(<<"u06F2", "u06F0", "u06F1", " ", "u062A", "u0627", " ", "u06F5",
                     "u06F0", "u06F0", " ", "u0646", "u0641", "u0631">>))
             ELSE IF Contains(normalized_str, <<"u06F5", "u06F0", "u06F1", "u06F1", "u06F0",
                     "u06F0", "u06F0">>)
                   \/ Contains(normalized_str, <<"5", "0", "1", "1", "0", "0", "0">>)
             THEN Return(Str(<<"u06F5", "u06F0", "u06F1", " ", "u062A", "u0627", " ", "u06F1",
                     "u06F0", "u06F0", "u06F0", " ", "u0646", "u0641", "u0631">>))
             ELSE IF Contains(normalized_str, <<"u0628", "u06CC", "u0634", "u0627", "u0632",
                     "u06F1", "u06F0", "u06F0", "u06F0">>)
                   \/ Contains(normalized_str, <<"u0628", "u06CC", "u0634", "u0627", "u0632",
                           "1", "0", "0", "0">>)
             THEN Return(Str(<<"u0628", "u06CC", "u0634", " ", "u0627", "u0632", " ", "u06F1",
                     "u06F0", "u06F0", "u06F0", " ", "u0646", "u0641", "u0631">>))
             ELSE Return(Str(<<"u0646", "u0627", "u0645", "u0634", "u062E", "u0635">>))

-----------------------------------------------------------------------------
(* The other copies of parse_software_skills                               *)
(* (src/visualize_top_paying_skills.py, src/visualize_experience_by_skill.py, *)
(* src/visualize_it_skills_by_province.py), each written out from its own  *)
(* source: the guard, the quote substitution, json.loads, the isinstance    *)
(* test, the list comprehension, and the except clause, which names         *)
(* json.JSONDecodeError and TypeError.                                      *)

\* A slip a copy could have: its except clause catches every exception.
parse_software_skills_of_top_paying_skills_except_all(skills_json) ==
    IF isna(skills_json) \/ skills_json.type # "str" THEN Return(List(<<>>))
    ELSE LET decoded == json_loads(Replace(skills_json.s, <<"'">>, <<"\"">>))
             skills_list == decoded.val
             TitleFa(skill) == DictGet(skill, <<"TitleFa">>, None)
             \* .get on what is no dict, .strip on a truthy value that is no str
             Fails(skill) ==
                 \/ skill.type # "dict"
                 \/ Truthy(TitleFa(skill)) /\ TitleFa(skill).type # "str"
             Valid(skill) == Truthy(TitleFa(skill)) /\ Strip(TitleFa(skill).s) # <<>>
             kept == SelectSeq(skills_list.items, Valid)
             outcome ==
                 IF decoded.kind = "raise" THEN Raise("JSONDecodeError")
                 ELSE IF skills_list.type # "list" THEN Return(List(<<>>))
                 ELSE IF \E i \in 1..Len(skills_list.items) : Fails(skills_list.items[i])
                      THEN Raise("AttributeError")
                      ELSE Return(List([i \in 1..Len(kept) |-> Str(Strip(TitleFa(kept[i]).s))]))
         IN  IF outcome.kind = "raise" /\ outcome.exc \in {"JSONDecodeError", "TypeError", "AttributeError"}
             THEN Return(List(<<>>))
             ELSE outcome

\* parse_software_skills of visualize_top_paying_skills.py (lines 24-42).
parse_software_skills_of_top_paying_skills(skills_json) ==
    IF isna(skills_json) \/ skills_json.type # "str" THEN Return(List(<<>>))
    ELSE LET decoded == json_loads(Replace(skills_json.s, <<"'">>, <<"\"">>))
             skills_list == decoded.val
             TitleFa(skill) == DictGet(skill, <<"TitleFa">>, None)
             \* .get on what is no dict, .strip on a truthy value that is no str
             Fails(skill) ==
                 \/ skill.type # "dict"
                 \/ Truthy(TitleFa(skill)) /\ TitleFa(skill).type # "str"
             Valid(skill) == Truthy(TitleFa(skill)) /\ Strip(TitleFa(skill).s) # <<>>
             kept == SelectSeq(skills_list.items, Valid)
             outcome ==
                 IF decoded.kind = "raise" THEN Raise("JSONDecodeError")
                 ELSE IF skills_list.type # "list" THEN Return(List(<<>>))
                 ELSE IF \E i \in 1..Len(skills_list.items) : Fails(skills_list.items[i])
                      THEN Raise("AttributeError")
                      ELSE Return(List([i \in 1..Len(kept) |-> Str(Strip(TitleFa(kept[i]).s))]))
         IN  IF outcome.kind = "raise" /\ outcome.exc \in {"JSONDecodeError", "TypeError"}
             THEN Return(List(<<>>))
             ELSE outcome

\* parse_software_skills of visualize_experience_by_skill.py (lines 24-42).
parse_software_skills_of_experience_by_skill(skills_json) ==
    IF isna(skills_json) \/ skills_json.type # "str" THEN Return(List(<<>>))
    ELSE LET decoded == json_loads(Replace(skills_json.s, <<"'">>, <<"\"">>))
             skills_list == decoded.val
             TitleFa(skill) == DictGet(skill, <<"TitleFa">>, None)
             \* .get on what is no dict, .strip on a truthy value that is no str
             Fails(skill) ==
                 \/ skill.type # "dict"
                 \/ Truthy(TitleFa(skill)) /\ TitleFa(skill).type # "str"
             Valid(skill) == Truthy(TitleFa(skill)) /\ Strip(TitleFa(skill).s) # <<>>
             kept == SelectSeq(skills_list.items, Valid)
             outcome ==
                 IF decoded.kind = "raise" THEN Raise("JSONDecodeError")
                 ELSE IF skills_list.type # "list" THEN Return(List(<<>>))
                 ELSE IF \E i \in 1..Len(skills_list.items) : Fails(skills_list.items[i])
                      THEN Raise("AttributeError")
                      ELSE Return(List([i \in 1..Len(kept) |-> Str(Strip(TitleFa(kept[i]).s))]))
         IN  IF outcome.kind = "raise" /\ outcome.exc \in {"JSONDecodeError", "TypeError"}
             THEN Return(List(<<>>))
             ELSE outcome

\* parse_software_skills of visualize_it_skills_by_province.py (lines 24-42).
parse_software_skills_of_it_skills_by_province(skills_json) ==
    IF isna(skills_json) \/ skills_json.type # "str" THEN Return(List(<<>>))
    ELSE LET decoded == json_loads(Replace(skills_json.s, <<"'">>, <<"\"">>))
             skills_list == decoded.val
             TitleFa(skill) == DictGet(skill, <<"TitleFa">>, None)
             \* .get on what is no dict, .strip on a truthy value that is no str
             Fails(skill) ==
                 \/ skill.type # "dict"
                 \/ Truthy(TitleFa(skill)) /\ TitleFa(skill).type # "str"
             Valid(skill) == Truthy(TitleFa(skill)) /\ Strip(TitleFa(skill).s) # <<>>
             kept == SelectSeq(skills_list.items, Valid)
             outcome ==
                 IF decoded.kind = "raise" THEN Raise("JSONDecodeError")
                 ELSE IF skills_list.type # "list" THEN Return(List(<<>>))
                 ELSE IF \E i \in 1..Len(skills_list.items) : Fails(skills_list.items[i])
                      THEN Raise("AttributeError")
                      ELSE Return(List([i \in 1..Len(kept) |-> Str(Strip(TitleFa(kept[i]).s))]))
         IN  IF outcome.kind = "raise" /\ outcome.exc \in {"JSONDecodeError", "TypeError"}
             THEN Return(List(<<>>))
             ELSE outcome

-----------------------------------------------------------------------------
(* The duplicated helpers, checked under SpecHelpers.                      *)

\* C27: the copies of a duplicated helper agree on every input: the copy of
\* standardize_company_size in visualize_salary_by_company_size.py returns the label the
\* copy in visualize_company_size.py returns, and the copies of parse_software_skills in
\* visualize_top_paying_skills.py, visualize_experience_by_skill.py and
\* visualize_it_skills_by_province.py return the list, or raise the error, that the copy
\* in visualize_top_skills.py returns or raises.
C27_CopiesAgree ==
    /\ Called("standardize_company_size") =>
           standardize_company_size_of_salary_script(arg) = ret
    /\ Called("parse_software_skills") =>
           /\ parse_software_skills_of_top_paying_skills(arg) = ret
           /\ parse_software_skills_of_experience_by_skill(arg) = ret
           /\ parse_software_skills_of_it_skills_by_province(arg) = ret

\* The copy of visualize_top_skills.py has raised AttributeError on a list that holds
\* something that is no record, and the copy of visualize_top_paying_skills.py raises it
\* too.
C27_Witness ==
    /\ Called("parse_software_skills")
    /\ ret = Raise("AttributeError")
    /\ parse_software_skills_of_top_paying_skills(arg) = Raise("AttributeError")


-----------------------------------------------------------------------------
(* The analyses that read the translated columns, checked under SpecHelpers. *)

\* C28: translation does not change how a job title is classified: for every raw title
\* that is a string, standardize_it_role returns for the translated title the role it
\* returns for the raw title, and categorize_seniority returns for the translated title
\* the seniority it returns for the raw title.
C28_TranslationKeepsClassification ==
    /\ (Called("standardize_it_role") /\ arg.type = "str") =>
           standardize_it_role(CleanCell(arg)) = ret
    /\ (Called("categorize_seniority") /\ arg.type = "str") =>
           categorize_seniority(CleanCell(arg)) = ret


\* C29: every literal of the IT_JOB_CATEGORIES lists is a value the cleaned MainJobCategory
\* column can hold: the translator leaves a raw cell equal to such a literal unchanged, so
\* the filter of each analysis still selects, after the cleaning, a row whose raw category
\* it would select.
C29_FilterLiteralsSurvive ==
    (Called("clean_column") /\ arg \in CategoryCells) =>
        /\ ret.val = arg
        /\ isin(arg, IT_JOB_CATEGORIES_of_it_role_salaries)
               => isin(ret.val, IT_JOB_CATEGORIES_of_it_role_salaries)
        /\ isin(arg, IT_JOB_CATEGORIES_of_it_skills_by_province)
               => isin(ret.val, IT_JOB_CATEGORIES_of_it_skills_by_province)


-----------------------------------------------------------------------------
(* The names after the Column Reshaper, checked under Spec.                *)

\* C30: from the rename on, no two columns of the DataFrame have the same name (the raw
\* columns have distinct names), nor have two columns of the cleaned table, so that every
\* name a later stage uses refers to one column, and no stage raises.
C30_NamesStayDistinct ==
    /\ (Loaded /\ pc # "loaded") =>
           /\ \A i, j \in 1..Len(df.cols) : df.cols[i] = df.cols[j] => i = j
           /\ exc = ""
    /\ Written =>
           \A i, j \in 1..Len(cleaned_file.cols) :
               cleaned_file.cols[i] = cleaned_file.cols[j] => i = j

=============================================================================
